---- MODULE Spec2Model ----
(***************************************************************************)
(* Model of the pipeline orchestration engine of muad:                     *)
(*   - DependencyResolver            (src/src/utils/logger.ts:146-308)     *)
(*   - runPromisePool                (src/src/utils/promise-pool.ts)       *)
(*   - the install command handler   (src/unnamed/part_004:401-441)        *)
(*   - executeElement                (src/unnamed/part_004:606-653)        *)
(* Three specifications share the module: SpecResolver applies the         *)
(* resolver's methods to bounded element lists, SpecPool runs the pool on  *)
(* bounded task lists, SpecRun runs the install handler.                   *)
(***************************************************************************)
EXTENDS Integers, Sequences, FiniteSets, TLC

\* ------------------------------------------------------------------ bounds
\* Total size of an element list: one per element plus one per dependency entry.
MaxSize == 6
\* Calls of resolveExecutionOrder on one resolver.
MaxCalls == 2

\* Tasks handed to runPromisePool, and the largest concurrency argument.
MaxTasks == 4
MaxConcurrency == 3

\* The install handler: total size of the loaded element list (descriptors
\* and pipeline steps), and the longest pipeline of an element.
MaxRunSize == 6
MaxSteps == 2

\* set and clear calls made on one context.
MaxSets == 3

\* Steps of a pipeline that executeElement runs with its context.
MaxPipeline == 3

\* runWithPty: the prompts of a run and the output chunks it receives.
MaxPrompts == 2
MaxData == 3

\* The element filter: total size of the imported element list (descriptors
\* and dependency entries), and the names requested.
MaxFilterSize == 5
MaxFilters == 2

\* The terminal text utilities: the longest string of control characters and
\* the longest string of lines handed to them.
MaxVTText == 4
MaxLineText == 5

\* Element names, and those that the loaded element lists and dependency
\* lists are drawn from.
Names == {"A", "B", "C", "D", "E", "F", "G"}
LoadNames == {"A", "B", "C"}

\* ----------------------------------------------------------------- helpers
Range(s) == {s[i] : i \in 1..Len(s)}

Min(S) == CHOOSE x \in S : \A y \in S : x <= y

\* Array.prototype.indexOf on an array that holds x (1-based here).
IndexOf(s, x) == Min({i \in 1..Len(s) : s[i] = x})

\* --------------------------------------------------------------- elements
\* An Element (src/unnamed/part_000:77-84): name, optional
\* metadata.dependencies, pipeline.  hasDependencies = FALSE is a descriptor
\* without metadata.dependencies.  data holds the leaves of the other keys
\* of the descriptor file, which the schema lets through and
\* executeElement hands to new PipelineContext with the rest.
OneStep == <<"tool">>

MkElement(n, has, deps, pipe) ==
  [name |-> n, hasDependencies |-> has, dependencies |-> deps, pipeline |-> pipe,
   data |-> <<>>]

\* element.metadata?.dependencies || []
Dependencies(e) == IF e.hasDependencies THEN e.dependencies ELSE <<>>

\* Size of a descriptor: one for the element, one per dependency entry, one
\* for a dependency list that is declared and empty.
ElementSize(e) ==
  1 + Len(e.dependencies) + (IF e.hasDependencies /\ e.dependencies = <<>> THEN 1 ELSE 0)

\* The descriptors of size exactly k with the pipeline pipe.
ElementsOfSize(k, pipe) ==
  (IF k = 1 THEN {MkElement(n, FALSE, <<>>, pipe) : n \in LoadNames} ELSE {})
  \cup (IF k = 2 THEN {MkElement(n, TRUE, <<>>, pipe) : n \in LoadNames} ELSE {})
  \cup (IF k >= 2
        THEN {MkElement(n, TRUE, d, pipe) : n \in LoadNames, d \in [1..(k - 1) -> LoadNames]}
        ELSE {})

RECURSIVE ListSize(_)
ListSize(elems) ==
  IF elems = <<>> THEN 0 ELSE ElementSize(Head(elems)) + ListSize(Tail(elems))

ElementNames(elems) == [i \in 1..Len(elems) |-> elems[i].name]

\* this.elementMap.get(name), for a name the map holds.
ElementNamed(elems, n) == elems[Min({i \in 1..Len(elems) : elems[i].name = n})]

\* ----------------------------------------------------------------- errors
NoError == [name |-> "none", kind |-> "none", element |-> "", dependency |-> "", cycle |-> <<>>]

DependencyError(kind, element, dependency, cycle) ==
  [name |-> "DependencyError", kind |-> kind, element |-> element,
   dependency |-> dependency, cycle |-> cycle]

\* ------------------------------------------------------ DependencyResolver
\* buildElementMap: the first element whose name the map already holds throws.
DuplicateIndexes(elems) ==
  {i \in 1..Len(elems) : \E j \in 1..(i - 1) : elems[j].name = elems[i].name}

buildElementMap(elems) ==
  IF DuplicateIndexes(elems) = {} THEN NoError
  ELSE DependencyError("duplicate", elems[Min(DuplicateIndexes(elems))].name, "", <<>>)

\* validateDependencies: elements in list order, each one's dependencies in
\* declared order; the first self-reference or unknown name throws.
BadDependency(elems, i, k) ==
  LET dep == Dependencies(elems[i])[k]
  IN dep = elems[i].name \/ dep \notin Range(ElementNames(elems))

DependencyPositions(elems) ==
  UNION {{<<i, k>> : k \in 1..Len(Dependencies(elems[i]))} : i \in 1..Len(elems)}

BadPositions(elems) ==
  {p \in DependencyPositions(elems) : BadDependency(elems, p[1], p[2])}

FirstBadPosition(elems) ==
  CHOOSE p \in BadPositions(elems) :
    \A q \in BadPositions(elems) : p[1] < q[1] \/ (p[1] = q[1] /\ p[2] <= q[2])

\* Mutant: the self-reference test of validateDependencies is dropped.
validateDependencies_NoSelfCheck(elems) ==
  LET missing == {p \in DependencyPositions(elems) :
                    Dependencies(elems[p[1]])[p[2]] \notin Range(ElementNames(elems))}
  IN IF missing = {} THEN NoError
     ELSE LET p == CHOOSE x \in missing :
                     \A q \in missing : x[1] < q[1] \/ (x[1] = q[1] /\ x[2] <= q[2])
          IN DependencyError("missing", elems[p[1]].name, Dependencies(elems[p[1]])[p[2]], <<>>)

validateDependencies(elems) ==
  IF BadPositions(elems) = {} THEN NoError
  ELSE LET p == FirstBadPosition(elems)
           e == elems[p[1]]
           dep == Dependencies(e)[p[2]]
       IN IF dep = e.name
          THEN DependencyError("self", e.name, "", <<>>)
          ELSE DependencyError("missing", e.name, dep, <<>>)

\* The error the constructor throws, NoError when it returns.
ConstructorError(elems) ==
  IF buildElementMap(elems) # NoError THEN buildElementMap(elems)
  ELSE validateDependencies(elems)

\* buildGraph.  adjacencyList[d] is a Set: the dependents of d in insertion
\* order, each once.  inDegree[n] counts every entry of n's dependency list.
BuildAdjacency(elems) ==
  [d \in Range(ElementNames(elems)) |->
     SelectSeq(ElementNames(elems),
               LAMBDA n : d \in Range(Dependencies(ElementNamed(elems, n))))]

BuildInDegree(elems) ==
  [n \in Range(ElementNames(elems)) |-> Len(Dependencies(ElementNamed(elems, n)))]

\* topologicalSort, the inner loop over the neighbors of the dequeued node.
RECURSIVE RelaxNeighbors(_, _, _)
RelaxNeighbors(neighbors, deg, queue) ==
  IF neighbors = <<>> THEN [inDegree |-> deg, queue |-> queue]
  ELSE LET neighbor == Head(neighbors)
           newDegree == deg[neighbor] - 1
       IN RelaxNeighbors(Tail(neighbors),
                         [deg EXCEPT ![neighbor] = newDegree],
                         IF newDegree = 0 THEN Append(queue, neighbor) ELSE queue)

\* topologicalSort, the while loop: queue.shift(), result.push, relax.
RECURSIVE KahnLoop(_, _, _, _)
KahnLoop(queue, result, deg, adj) ==
  IF queue = <<>> THEN [result |-> result, inDegree |-> deg]
  ELSE LET current == Head(queue)
           r == RelaxNeighbors(adj[current], deg, Tail(queue))
       IN KahnLoop(r.queue, Append(result, current), r.inDegree, adj)

\* topologicalSort: the initial queue holds the zero in-degree names in the
\* key order of the inDegree map, which is element list order.
topologicalSort(order, deg, adj) ==
  KahnLoop(SelectSeq(order, LAMBDA n : deg[n] = 0), <<>>, deg, adj)

\* detectCycle: depth-first search along dependency lists.
RECURSIVE dfs(_, _, _, _, _)
RECURSIVE dfsDependencies(_, _, _, _, _)
dfs(elems, node, visited, recursionStack, path) ==
  IF node \in recursionStack
  THEN [found |-> TRUE, visited |-> visited,
        cycle |-> SubSeq(path, IndexOf(path, node), Len(path)) \o <<node>>]
  ELSE IF node \in visited
  THEN [found |-> FALSE, visited |-> visited, cycle |-> <<>>]
  ELSE dfsDependencies(elems, Dependencies(ElementNamed(elems, node)),
                       visited \cup {node}, recursionStack \cup {node},
                       Append(path, node))

dfsDependencies(elems, deps, visited, recursionStack, path) ==
  IF deps = <<>> THEN [found |-> FALSE, visited |-> visited, cycle |-> <<>>]
  ELSE LET r == dfs(elems, Head(deps), visited, recursionStack, path)
       IN IF r.found THEN r
          ELSE dfsDependencies(elems, Tail(deps), r.visited, recursionStack, path)

RECURSIVE detectCycleFrom(_, _, _)
detectCycleFrom(elems, keys, visited) ==
  IF keys = <<>> THEN <<>>
  ELSE IF Head(keys) \in visited THEN detectCycleFrom(elems, Tail(keys), visited)
  ELSE LET r == dfs(elems, Head(keys), visited, {}, <<>>)
       IN IF r.found THEN r.cycle
          ELSE detectCycleFrom(elems, Tail(keys), r.visited)

\* The reported path as a sequence of names; <<>> is "Unknown cycle detected".
detectCycle(elems) == detectCycleFrom(elems, ElementNames(elems), {})

\* Mutant: only a descriptor without a dependency list counts as independent.
getIndependentElements_AbsentOnly(elems) ==
  SelectSeq(elems, LAMBDA e : ~e.hasDependencies)

\* getIndependentElements
getIndependentElements(elems) ==
  SelectSeq(elems, LAMBDA e : Len(Dependencies(e)) = 0)

\* ---------------------------------------------------------- runPromisePool
\* What a task's promise can fulfil with.
Values == {"x", "y"}

\* A slot of new Array(tasks.length) that was never assigned.
Empty == "empty"

\* Mutant: one worker per task, whatever the concurrency.
PoolSize_OnePerTask(c, n) == n

\* Math.min(concurrency, tasks.length)
PoolSize(c, n) == IF c < n THEN c ELSE n

\* Mutant: the claim reads the counter and leaves it as it is.
NextTaskIndex_NoIncrement(i) == i

\* taskIndex++ : the value the counter holds after a claim.
NextTaskIndex(i) == i + 1

\* Mutant: results.push(value), the value lands in the first free slot.
StoreResult_Push(res, currentIndex, v) ==
  [res EXCEPT ![Min({i \in 1..Len(res) : res[i] = "empty"})] = v]

\* results[currentIndex] = <value>; currentIndex counts from 0.
StoreResult(res, currentIndex, v) == [res EXCEPT ![currentIndex + 1] = v]

\* One pass of a worker from the top of its while loop to its next await (or
\* to its break): claim the counter's value, stop when it is past the list,
\* otherwise call the task.  pl holds taskIndex, workers, taskState, startCount.
WorkerLoop(pl, w, n) ==
  LET currentIndex == pl.taskIndex
      claimed == [pl EXCEPT !.taskIndex = NextTaskIndex(pl.taskIndex)]
  IN IF currentIndex >= n
     THEN [claimed EXCEPT !.workers[w] = [state |-> "finished", currentIndex |-> currentIndex]]
     ELSE [claimed EXCEPT !.workers[w] = [state |-> "awaiting", currentIndex |-> currentIndex],
                          !.taskState[currentIndex + 1] = "running",
                          !.startCount[currentIndex + 1] = @ + 1]

\* Array.from({ length: poolSize }, () => worker()): the workers are called one
\* after the other, each running to its first await.
RECURSIVE SpawnWorkers(_, _, _, _)
SpawnWorkers(pl, w, poolSize, n) ==
  IF w > poolSize THEN pl
  ELSE SpawnWorkers(WorkerLoop(pl, w, n), w + 1, poolSize, n)

\* ---------------------------------------------------------------- strings
\* A string is the sequence of its lexemes: a word (a maximal run of the
\* characters [A-Za-z0-9_]) or one other character.  A dot-path is the
\* sequence of its segments.

\* The words that match /^[a-z][a-zA-Z0-9]*$/ (validateCamelCase) ...
CamelCaseWords ==
  {"ctx", "storageDirectory", "name", "out", "metadata", "dependencies", "myKey", "v",
   "cloneRepositoryOutput", "constructor", "prototype", "dir", "pipeline", "tool",
   "function", "native", "code", "command", "args", "true", "false", "null",
   "a", "c", "d", "f", "m", "n", "o", "p", "s", "t"}

\* ... and the other words: the class \w of the template expressions.
WordLexemes ==
  CamelCaseWords
    \cup {"__proto__", "_", "0", "A", "B", "F", "O", "S",
          "Object", "String", "Function", "Boolean"}

Whitespace == {" "}

\* validateCamelCase(key), for one part of key.split('.')
validateCamelCase(part) == Len(part) = 1 /\ part[1] \in CamelCaseWords

\* Array.prototype.join('.') of the segments of a path
RECURSIVE Join(_)
Join(p) ==
  IF p = <<>> THEN <<>>
  ELSE IF Len(p) = 1 THEN <<p[1]>>
  ELSE <<p[1], ".">> \o Join(Tail(p))

RECURSIVE SplitAcc(_, _)
SplitAcc(s, parts) ==
  IF s = <<>> THEN parts
  ELSE IF Head(s) = "." THEN SplitAcc(Tail(s), Append(parts, <<>>))
  ELSE SplitAcc(Tail(s), [parts EXCEPT ![Len(parts)] = Append(@, Head(s))])

\* String.prototype.split('.'): the parts between the dots, empty ones kept
split(s) == SplitAcc(s, << <<>> >>)

\* The path a key names once every part of it passed validateCamelCase.
PathOf(key) ==
  LET parts == split(key)
  IN [i \in 1..Len(parts) |-> parts[i][1]]

\* The first position from i on whose lexeme is not in the class.
SkipClass(s, i, class) ==
  IF i > Len(s) THEN i
  ELSE Min({j \in i..(Len(s) + 1) : j = Len(s) + 1 \/ s[j] \notin class})

IsAt(s, i, lexemes) ==
  /\ i >= 1
  /\ i + Len(lexemes) - 1 <= Len(s)
  /\ SubSeq(s, i, i + Len(lexemes) - 1) = lexemes

\* One attempt of /\$\{\{\s*([\w.]+)\s*\}\}/ at position i; open is the
\* text the expression starts with.
ExpressionAt(s, i, open) ==
  LET b == SkipClass(s, i + Len(open), Whitespace)
      c == SkipClass(s, b, WordLexemes \cup {"."})
      d == SkipClass(s, c, Whitespace)
  IN [found |-> IsAt(s, i, open) /\ c > b /\ IsAt(s, d, <<"}", "}">>),
      path  |-> SubSeq(s, b, c - 1),
      last  |-> d + 1]

TemplateOpen == <<"$", "{", "{">>
AssignmentOpen == <<"$", ">", "{", "{">>

\* ${{ path }} and $>{{ path }}
Interpolation(p) == <<"$", "{", "{", " ">> \o Join(p) \o <<" ", "}", "}">>
Assignment(p) == <<"$", ">", "{", "{", " ">> \o Join(p) \o <<" ", "}", "}">>

\* templateRegex.exec(template) with lastIndex = from - 1: the leftmost match
\* at or after from, 0 when there is none.
NextMatch(s, from) ==
  LET hits == {i \in from..Len(s) :
                 IsAt(s, i, TemplateOpen) /\ ExpressionAt(s, i, TemplateOpen).found}
  IN IF hits = {} THEN 0 ELSE Min(hits)

\* isAssignmentExpression(str): /^\$>\{\{\s*[\w.]+\s*\}\}$/
isAssignmentExpression(str) ==
  /\ ExpressionAt(str, 1, AssignmentOpen).found
  /\ ExpressionAt(str, 1, AssignmentOpen).last = Len(str)

\* parseAssignmentExpression(expr): the captured path, <<>> for null
parseAssignmentExpression(expr) ==
  IF isAssignmentExpression(expr) THEN ExpressionAt(expr, 1, AssignmentOpen).path ELSE <<>>

\* The replacement text of String.prototype.replace(string, string): "$$"
\* stands for "$" and "$&" for the matched text.  (The patterns that use a
\* backquote or an apostrophe are outside the characters modelled here.)
RECURSIVE GetSubstitution(_, _, _, _)
GetSubstitution(matched, before, after, replacement) ==
  IF replacement = <<>> THEN <<>>
  ELSE IF Head(replacement) = "$" /\ Len(replacement) >= 2
          /\ replacement[2] \in {"$", "&"}
       THEN (IF replacement[2] = "$" THEN <<"$">> ELSE matched)
            \o GetSubstitution(matched, before, after, Tail(Tail(replacement)))
       ELSE <<Head(replacement)>>
            \o GetSubstitution(matched, before, after, Tail(replacement))

\* result.replace(fullMatch, stringValue): the first occurrence only
replace(result, fullMatch, stringValue) ==
  LET hits == {i \in 1..Len(result) : IsAt(result, i, fullMatch)}
  IN IF hits = {} THEN result
     ELSE LET i == Min(hits)
              before == SubSeq(result, 1, i - 1)
              after == SubSeq(result, i + Len(fullMatch), Len(result))
          IN before \o GetSubstitution(fullMatch, before, after, stringValue) \o after

\* ---------------------------------------------------------------- contexts
\* An object of string leaves is the function from the paths of its leaves
\* to their values; a path that a leaf path properly extends is an object,
\* and an object without properties is a leaf with the value ObjectValue.
\* Values are strings: every set call of the program stores one
\* (src/unnamed/part_004:618, src/unnamed/part_003:218,278,
\* src/src/tools/clone-repository.ts:99).
NoData == [p \in {} |-> <<>>]

UndefinedValue == <<"#undefined">>
ObjectValue == <<"#object">>
NullReference == <<"#null">>
FunctionNamed(name) == <<"#function", name>>
IsFunction(value) == Len(value) = 2 /\ value[1] = "#function"

\* Function.prototype: a function without a name.
FunctionPrototype == FunctionNamed("")

\* Object.prototype, String.prototype and Boolean.prototype: objects.
PrototypeOf(name) == <<"#prototype", name>>
IsPrototype(value) == Len(value) = 2 /\ value[1] = "#prototype"
TrueValue == <<"#true">>
ClearedValue == <<"#cleared">>
FalseValue == <<"#false">>

IsPrefix(p, q) == Len(p) <= Len(q) /\ SubSeq(q, 1, Len(p)) = p
IsProperPrefix(p, q) == Len(p) < Len(q) /\ IsPrefix(p, q)

\* kebabToCamel(key) for the keys of element descriptors used here
kebabToCamel(key) == IF key = "my-key" THEN "myKey" ELSE key

\* A parsed element descriptor is the sequence of its leaves, each with its
\* path, in the order of Object.entries.
Leaf(path, value) == [path |-> path, value |-> value]

\* The entries that the loop of normalizeKeys assigns, at every depth, by
\* their camelKey paths: of two keys of one object with the same camelKey
\* the later one replaces what the earlier one stored.
NormalizedLeaves(obj) ==
  LET camel(p) == [i \in 1..Len(p) |-> kebabToCamel(p[i])]
      differ(p, q) == {k \in 1..Len(p) : k <= Len(q) /\ p[k] # q[k]}
      replaces(q, p) == /\ differ(p, q) # {}
                        /\ kebabToCamel(p[Min(differ(p, q))]) = kebabToCamel(q[Min(differ(p, q))])
      kept == {i \in 1..Len(obj) :
                 ~\E j \in (i + 1)..Len(obj) : replaces(obj[j].path, obj[i].path)}
  IN [q \in {camel(obj[i].path) : i \in kept} |->
        obj[CHOOSE i \in kept : camel(obj[i].path) = q].value]

\* The positions of a path at which the key is __proto__.
PrototypeSteps(p) == {k \in 1..Len(p) : p[k] = "__proto__"}

\* normalizeKeys(obj): kebabToCamel on every object key, normalized[camelKey]
\* = ... in the order of the entries.  With the camelKey __proto__ the
\* assignment is the prototype setter of the new object and makes no entry:
\* a string is ignored, an object becomes the prototype.  The result holds
\* the own entries; an object left without entries is an empty object.
normalizeKeys(obj) ==
  LET leaves == NormalizedLeaves(obj)
      own == {q \in DOMAIN leaves : PrototypeSteps(q) = {}}
      parents == {SubSeq(q, 1, Min(PrototypeSteps(q)) - 1) : q \in DOMAIN leaves \ own}
      emptied == {w \in parents :
                    /\ w # <<>>
                    /\ ~\E q \in own : IsPrefix(w, q)
                    /\ ~\E q \in parents : IsProperPrefix(w, q)}
  IN [q \in own \cup emptied |-> IF q \in own THEN leaves[q] ELSE ObjectValue]

\* The entries that for (k in val) of flattie finds in the prototypes that
\* normalizeKeys set, by the path flattie gives them.  The prototype of the
\* top object is lost with it (Object.entries(normalized) lists own keys
\* only), and a key of an object hides the same key of its prototype.
InheritedLeaves(obj) ==
  LET leaves == NormalizedLeaves(obj)
      runStarts(p) == {i \in PrototypeSteps(p) : i = 1 \/ p[i - 1] # "__proto__"}
      keyAfter(p, i) == Min({j \in i..Len(p) : p[j] # "__proto__"})
      hidden(p, i) ==
        \E q \in DOMAIN leaves : \E j \in i..(keyAfter(p, i) - 1) :
          /\ Len(q) >= j
          /\ SubSeq(q, 1, j - 1) = SubSeq(p, 1, j - 1)
          /\ q[j] = p[keyAfter(p, i)]
      found == {p \in DOMAIN leaves :
                  /\ PrototypeSteps(p) # {}
                  /\ 1 \notin PrototypeSteps(p)
                  /\ Len(p) \notin PrototypeSteps(p)
                  /\ \A i \in runStarts(p) : ~hidden(p, i)}
      flat(p) == SelectSeq(p, LAMBDA k : k # "__proto__")
  IN [q \in {flat(p) : p \in found} |-> leaves[CHOOSE p \in found : flat(p) = q]]

\* new ReadonlyContext(elementData): normalizeKeys, drop the key pipeline,
\* flattie, keep the primitives; the keys are the dot-joined leaf paths.
ReadonlyContext(elementData) ==
  LET normalized == normalizeKeys(elementData)
      inherited == InheritedLeaves(elementData)
      flattened == normalized @@ inherited
  IN [p \in {q \in DOMAIN flattened : q[1] # "pipeline" /\ flattened[q] # ObjectValue} |->
        flattened[p]]

\* The segments at which dset stops (package dset, not in src/: if (k ===
\* '__proto__' || k === 'constructor' || k === 'prototype') break).
BlockedSegments == {"__proto__", "constructor", "prototype"}

\* dset(obj, keys, val): walks the path, replaces whatever on the way is not
\* an object by a new object, and assigns val at the end; at a blocked
\* segment the walk ends with the objects made so far and no assignment.
dset(obj, keys, val) ==
  LET blocked == {i \in 1..Len(keys) : keys[i] \in BlockedSegments}
  IN IF blocked = {}
     THEN LET kept == {p \in DOMAIN obj : ~IsProperPrefix(p, keys) /\ ~IsPrefix(keys, p)}
          IN [p \in kept \cup {keys} |-> IF p = keys THEN val ELSE obj[p]]
     ELSE IF Min(blocked) = 1 THEN obj
     ELSE LET walked == SubSeq(keys, 1, Min(blocked) - 1)
              kept == {p \in DOMAIN obj :
                         /\ ~IsProperPrefix(p, walked)
                         /\ ~(p = walked /\ obj[p] # ObjectValue)}
          IN IF \E p \in kept : IsPrefix(walked, p)
             THEN [p \in kept |-> obj[p]]
             ELSE [p \in kept \cup {walked} |-> IF p = walked THEN ObjectValue ELSE obj[p]]

\* The property names every object inherits from Object.prototype, for the
\* words that occur here: key in {} is true for them.
InheritedProperties == {"constructor", "__proto__"}

\* value.constructor.name
ConstructorName(value) ==
  IF IsFunction(value) THEN "Function"
  ELSE IF IsPrototype(value) THEN value[2]
  ELSE IF value = ObjectValue THEN "Object"
  ELSE IF value \in {TrueValue, FalseValue} THEN "Boolean"
  ELSE "String"

\* The first character of a word.
FirstCharacter(lexeme) ==
  IF lexeme \in {"ctx", "cloneRepositoryOutput", "constructor", "code", "command"} THEN "c"
  ELSE IF lexeme \in {"dir", "dependencies"} THEN "d"
  ELSE IF lexeme \in {"metadata", "myKey"} THEN "m"
  ELSE IF lexeme \in {"name", "native", "null"} THEN "n"
  ELSE IF lexeme = "storageDirectory" THEN "s"
  ELSE IF lexeme = "out" THEN "o"
  ELSE IF lexeme \in {"pipeline", "prototype"} THEN "p"
  ELSE IF lexeme \in {"tool", "true"} THEN "t"
  ELSE IF lexeme \in {"function", "false"} THEN "f"
  ELSE IF lexeme = "args" THEN "a"
  ELSE IF lexeme = "Function" THEN "F"
  ELSE IF lexeme = "Object" THEN "O"
  ELSE IF lexeme = "String" THEN "S"
  ELSE IF lexeme = "Boolean" THEN "B"
  ELSE IF lexeme = "__proto__" THEN "_"
  ELSE lexeme

\* Object.getPrototypeOf of a value that has properties.
PrototypeOfValue(value) ==
  IF value = FunctionPrototype THEN PrototypeOf("Object")
  ELSE IF IsFunction(value) THEN FunctionPrototype
  ELSE IF value = PrototypeOf("Object") THEN NullReference
  ELSE IF IsPrototype(value) \/ value = ObjectValue THEN PrototypeOf("Object")
  ELSE IF value \in {TrueValue, FalseValue} THEN PrototypeOf("Boolean")
  ELSE PrototypeOf("String")

\* value[name] where name is no own property of an object of the data:
\* every value has a constructor and a prototype, a constructor function
\* has the property prototype, a function has a name and a string has its
\* characters.
PropertyOf(value, name) ==
  IF value \in {UndefinedValue, NullReference} THEN UndefinedValue
  ELSE IF name = "constructor" THEN FunctionNamed(ConstructorName(value))
  ELSE IF name = "__proto__" THEN PrototypeOfValue(value)
  ELSE IF name = "prototype" /\ IsFunction(value) /\ value # FunctionPrototype
  THEN (IF value = FunctionNamed("Function") THEN FunctionPrototype
        ELSE PrototypeOf(value[2]))
  ELSE IF name = "name" /\ IsFunction(value)
  THEN (IF value = FunctionPrototype THEN <<>> ELSE <<value[2]>>)
  ELSE IF /\ name = "0"
          /\ value \notin {ObjectValue, TrueValue, FalseValue, <<>>}
          /\ ~IsFunction(value)
          /\ ~IsPrototype(value)
  THEN <<FirstCharacter(value[1])>>
  ELSE UndefinedValue

\* dlv(obj, key) (package dlv, not in src/): obj = obj ? obj[key[p]] :
\* undefined for every segment; the property access finds own and inherited
\* properties alike.
RECURSIVE dlv(_, _)
dlv(obj, key) ==
  IF key \in DOMAIN obj THEN obj[key]
  ELSE IF \E p \in DOMAIN obj : IsProperPrefix(key, p) THEN ObjectValue
  ELSE IF key = <<>> THEN UndefinedValue
  ELSE LET parent == IF Len(key) = 1 THEN ObjectValue
                     ELSE dlv(obj, SubSeq(key, 1, Len(key) - 1))
       IN IF parent \in {UndefinedValue, NullReference, <<>>, FalseValue} THEN UndefinedValue
          ELSE PropertyOf(parent, key[Len(key)])

\* Outcomes of a call: what it threw ("none" when it returned) and the value
\* it returned.
Returned(v) == [threw |-> "none", value |-> v]
Threw(errorName) == [threw |-> errorName, value |-> <<>>]

\* The checks of RuntimeContext.set(key, value) before the assignment; c is
\* [readonlyKeys, assignedKeys, data].
SetRejected_NoAssignedCheck(c, key) ==
  \/ \E i \in 1..Len(split(key)) : ~validateCamelCase(split(key)[i])
  \/ PathOf(key) \in c.readonlyKeys

SetRejected(c, key) ==
  \/ \E i \in 1..Len(split(key)) : ~validateCamelCase(split(key)[i])
  \/ PathOf(key) \in c.readonlyKeys
  \/ PathOf(key) \in c.assignedKeys

\* Mutant: the key is recorded as assigned before the checks.
RuntimeContextSet_RecordsFirst(c, key, value) ==
  IF SetRejected(c, key) THEN [c EXCEPT !.assignedKeys = c.assignedKeys \cup {PathOf(key)}]
  ELSE [c EXCEPT !.data = dset(c.data, PathOf(key), value),
                 !.assignedKeys = c.assignedKeys \cup {PathOf(key)}]

\* RuntimeContext.set(key, value): the context after the call
RuntimeContextSet(c, key, value) ==
  IF SetRejected(c, key) THEN c
  ELSE [c EXCEPT !.data = dset(c.data, PathOf(key), value),
                 !.assignedKeys = c.assignedKeys \cup {PathOf(key)}]

\* RuntimeContext.get(key)
RuntimeContextGet(c, key) == dlv(c.data, PathOf(key))

\* RuntimeContext.has(key): dlv(this.data, key) !== undefined
RuntimeContextHas(c, key) ==
  IF dlv(c.data, PathOf(key)) # UndefinedValue THEN TrueValue ELSE FalseValue

\* RuntimeContext.resolve(path): return this.get(path)
RuntimeContextResolve(c, path) == RuntimeContextGet(c, path)

\* new PipelineContext(elementData)
PipelineContext(elementData) ==
  [readonlyData |-> ReadonlyContext(elementData),
   readonlyKeys |-> DOMAIN ReadonlyContext(elementData),
   assignedKeys |-> {},
   data |-> NoData]

\* Object.keys(runtimeCtx)
TopLevelKeys(runtimeCtx) == {p[1] : p \in DOMAIN runtimeCtx}

\* Object.keys(runtimeCtx).filter(key => key in readonlyCtx)
Conflicts(readonlyCtx, runtimeCtx) ==
  {k \in TopLevelKeys(runtimeCtx) :
     <<k>> \in DOMAIN readonlyCtx \/ k \in InheritedProperties}

\* { ...readonlyCtx, ...runtimeCtx } as dlv walks it: the runtime tree and
\* the readonly keys of one segment that no runtime key hides (a readonly
\* key with a dot in it is an own key no walk reaches).
MergedTree(readonlyCtx, runtimeCtx) ==
  LET flat == {q \in DOMAIN readonlyCtx :
                 Len(q) = 1 /\ q[1] \notin TopLevelKeys(runtimeCtx)}
  IN [p \in DOMAIN runtimeCtx \cup flat |->
        IF p \in DOMAIN runtimeCtx THEN runtimeCtx[p] ELSE readonlyCtx[p]]

\* resolvePath({ ...readonlyCtx, ...runtimeCtx }, path): path in context
\* (a top-level runtime key, which wins over a readonly key of the same
\* name, a flat readonly key, or an inherited name) gives context[path],
\* dlv otherwise.
resolvePath(readonlyCtx, runtimeCtx, path) ==
  IF path[1] \in TopLevelKeys(runtimeCtx) /\ Len(path) = 1 THEN dlv(runtimeCtx, path)
  ELSE IF path \in DOMAIN readonlyCtx THEN readonlyCtx[path]
  ELSE dlv(MergedTree(readonlyCtx, runtimeCtx), path)

\* value === undefined, or typeof value === 'object' && value !== null
NotInterpolable_UndefinedOnly(value) == value = UndefinedValue

NotInterpolable(value) ==
  value = UndefinedValue \/ value = ObjectValue \/ IsPrototype(value)

\* typeof value === 'string' ? value : String(value)
String(value) ==
  IF value = FunctionPrototype
  THEN <<"function", " ", "(", ")", " ", "{", " ", "[", "native", " ", "code", "]", " ", "}">>
  ELSE IF IsFunction(value)
  THEN <<"function", " ", value[2], "(", ")", " ", "{", " ", "[", "native", " ", "code",
         "]", " ", "}">>
  ELSE IF value = NullReference THEN <<"null">>
  ELSE IF value = TrueValue THEN <<"true">>
  ELSE IF value = FalseValue THEN <<"false">>
  ELSE value

\* The while loop of processTemplate from position from of the template on.
RECURSIVE ExpandFrom(_, _, _, _, _)
ExpandFrom(template, from, result, readonlyCtx, runtimeCtx) ==
  LET i == NextMatch(template, from)
      m == ExpressionAt(template, i, TemplateOpen)
      parts == split(m.path)
      value == resolvePath(readonlyCtx, runtimeCtx, PathOf(m.path))
  IN IF i = 0 THEN Returned(result)
     ELSE IF \E k \in 1..Len(parts) : ~validateCamelCase(parts[k]) THEN Threw("TemplateError")
     ELSE IF NotInterpolable(value) THEN Threw("TemplateError")
     ELSE ExpandFrom(template, m.last + 1,
                     replace(result, SubSeq(template, i, m.last), String(value)),
                     readonlyCtx, runtimeCtx)

processTemplate_NoAssignmentCheck(template, readonlyCtx, runtimeCtx) ==
  IF Conflicts(readonlyCtx, runtimeCtx) # {} THEN Threw("TemplateError")
  ELSE ExpandFrom(template, 1, template, readonlyCtx, runtimeCtx)

\* processTemplate(template, readonlyCtx, runtimeCtx)
processTemplate(template, readonlyCtx, runtimeCtx) ==
  IF isAssignmentExpression(template) THEN Returned(template)
  ELSE IF Conflicts(readonlyCtx, runtimeCtx) # {} THEN Threw("TemplateError")
  ELSE ExpandFrom(template, 1, template, readonlyCtx, runtimeCtx)

\* ------------------------------------------- executeElement and its context
\* The calls of executeElement that can be in flight together (the pool runs
\* the independent elements concurrently).
Executions == {1, 2}

\* The storageDirectory argument of executeElement and the key it is set at.
storageDirectory == <<"dir">>
StorageDirectoryKey == Join(<<"ctx", "storageDirectory">>)

\* The descriptors executed: one plain, one with a key of its own at
\* ctx.storageDirectory.
ExecElements ==
  { <<Leaf(<<"name">>, <<"A">>)>>,
    <<Leaf(<<"name">>, <<"A">>), Leaf(<<"ctx", "storageDirectory">>, <<"v">>)>> }

\* Pipeline steps: the tool, its templated parameter (command or url) and
\* its output-assign parameter (<<>>: absent).
PipelineItems ==
  { [tool |-> "execute-bash-command",
     params |-> [param |-> Interpolation(<<"ctx", "storageDirectory">>),
                 outputAssign |-> Assignment(<<"ctx", "out">>)]],
    [tool |-> "execute-bash-command",
     params |-> [param |-> Interpolation(<<"ctx", "out">>),
                 outputAssign |-> Assignment(<<"ctx">>)]],
    [tool |-> "clone-repository",
     params |-> [param |-> Interpolation(<<"name">>), outputAssign |-> <<>>]] }

\* What a tool stores: the command output or the clone directory.
ToolOutput == <<"v">>

Pipelines == UNION {[1..n -> PipelineItems] : n \in 0..MaxPipeline}

\* A value handed to processObjectTemplate: a string, another primitive (a
\* number, a boolean, null), an array of values or an object, which is the
\* list of its entries in the order of Object.entries.
StringOf(s) == [kind |-> "string", string |-> s, entries |-> <<>>]
PrimitiveOf(p) == [kind |-> "primitive", string |-> p, entries |-> <<>>]
ArrayOf(items) ==
  [kind |-> "array", string |-> <<>>,
   entries |-> [i \in 1..Len(items) |-> [key |-> "", value |-> items[i]]]]
ObjectOf(entries) == [kind |-> "object", string |-> <<>>, entries |-> entries]
NullValue == PrimitiveOf(<<"null">>)

\* processObjectTemplate(obj, readonlyCtx, runtimeCtx): a string gives its
\* processTemplate, an array the map of its items, an object a new object
\* with the entries whose key is truthy (if (key)), anything else itself;
\* what processTemplate throws is thrown on.  result["__proto__"] = ... is
\* the prototype setter of the new object and makes no entry.
RECURSIVE processObjectTemplate(_, _, _)
processObjectTemplate(obj, readonlyCtx, runtimeCtx) ==
  IF obj.kind = "string"
  THEN LET r == processTemplate(obj.string, readonlyCtx, runtimeCtx)
       IN IF r.threw # "none" THEN [threw |-> r.threw, value |-> NullValue]
          ELSE [threw |-> "none", value |-> StringOf(r.value)]
  ELSE IF obj.kind \in {"array", "object"}
  THEN LET truthy == SelectSeq(obj.entries, LAMBDA e : obj.kind = "array" \/ e.key # "")
           done == [k \in 1..Len(truthy) |->
                      [key |-> truthy[k].key,
                       result |-> processObjectTemplate(truthy[k].value,
                                                        readonlyCtx, runtimeCtx)]]
           failed == {k \in 1..Len(done) : done[k].result.threw # "none"}
           assigned == SelectSeq(done, LAMBDA e : obj.kind = "array" \/ e.key # "__proto__")
       IN IF failed # {} THEN [threw |-> done[Min(failed)].result.threw, value |-> NullValue]
          ELSE [threw |-> "none",
                value |-> [obj EXCEPT !.entries =
                             [k \in 1..Len(assigned) |->
                                [key |-> assigned[k].key,
                                 value |-> assigned[k].result.value]]]]
  ELSE [threw |-> "none", value |-> obj]

\* context.processObjectTemplate(pipelineItem.with): processTemplate on every
\* string of the object.
PipelineContextProcessObjectTemplate(params, c) ==
  LET p == processTemplate(params.param, c.readonlyData, c.data)
      o == IF params.outputAssign = <<>> THEN Returned(<<>>)
           ELSE processTemplate(params.outputAssign, c.readonlyData, c.data)
  IN [threw |-> IF p.threw # "none" THEN p.threw ELSE o.threw,
      param |-> p.value, outputAssign |-> o.value]

\* The key a tool stores its output at, <<>> when it stores none:
\* parseAssignmentExpression(params.outputAssign) || params.outputAssign, and
\* "ctx.cloneRepositoryOutput" for a clone without output-assign.
OutputKey(tool, outputAssign) ==
  IF outputAssign # <<>>
  THEN (IF parseAssignmentExpression(outputAssign) # <<>>
        THEN parseAssignmentExpression(outputAssign) ELSE outputAssign)
  ELSE IF tool = "clone-repository" THEN Join(<<"ctx", "cloneRepositoryOutput">>)
  ELSE <<>>

\* new Error(`Pipeline failed at step ${i + 1} (${pipelineItem.tool}): ...`);
\* steps are counted from 1 here.
StepFailure_NoStep(i, tool) == [thrown |-> TRUE, step |-> 0, tool |-> ""]

StepFailure(i, tool) == [thrown |-> TRUE, step |-> i, tool |-> tool]

\* The ContextError of context.set("ctx.storageDirectory", ...), thrown
\* outside the loop.
SetupFailure == [thrown |-> TRUE, step |-> 0, tool |-> ""]

NoFailure == [thrown |-> FALSE, step |-> 0, tool |-> ""]

\* The context object a call of executeElement works on: its own.
ContextSlot_Shared(e) == 1

ContextSlot(e) == e

NotStarted ==
  [phase |-> "idle", element |-> <<>>, pipeline |-> <<>>, step |-> 0, error |-> NoFailure,
   log |-> <<>>, seen |-> <<>>, sets |-> <<>>]

\* The loop of executeElement at step i of the execution x: the step was
\* expanded to processedParams and, when that did not throw, its tool called
\* up to its first await, where it expanded its parameter again (inTool).
\* A throw of processObjectTemplate is caught at once; a throw inside the
\* async execute rejects its promise, which executeElement awaits.
StepAt(x, i, seenData, processedParams, inTool) ==
  LET item == x.pipeline[i]
      expanded == [x EXCEPT !.step = i,
                            !.log = Append(@, <<"expand", i>>),
                            !.seen = Append(@, seenData)]
  IN IF processedParams.threw # "none"
     THEN [expanded EXCEPT !.phase = "failed", !.error = StepFailure(i, item.tool),
                           !.log = Append(@, <<"failed", i>>)]
     ELSE IF inTool.threw # "none"
     THEN [expanded EXCEPT !.phase = "toolRejected",
                           !.log = Append(@, <<"execute", i>>)]
     ELSE [expanded EXCEPT !.phase = "awaiting",
                           !.log = Append(@, <<"execute", i>>)]

\* ------------------------------------------------------------- runWithPty
\* Terminal output is a sequence of characters; "ESC" is \u001B, "BEL"
\* \u0007, "LF" \n, "CR" \r and "BS" \b; the C1 controls are "PAD" \u0080,
\* "DCS" \u0090, "CSI" \u009B, "ST" \u009C, "OSC" \u009D, "PM" \u009E and
\* "APC" \u009F.  The classes of VT_REGEX, for the characters that occur
\* here.
ParameterBytes == {"0", ";"}
IntermediateBytes == {" "}
FinalBytes == {"m", "a", "b", "y", "n", "[", "]", "P", "^", "_", "\\"}
C1Bytes == {"PAD", "DCS", "CSI", "ST", "OSC", "PM", "APC"}

\* [\x30-\x3F]*[\x20-\x2F]*[\x40-\x7E] from position i on: the position
\* of the final byte, 0 when there is no match.
CsiEnd(s, i) ==
  LET q == SkipClass(s, SkipClass(s, i, ParameterBytes), IntermediateBytes)
  IN IF q <= Len(s) /\ s[q] \in FinalBytes THEN q ELSE 0

\* [^stops]*(?:closers|\u001B\\) from position i on: the position of the
\* last character of the terminator, 0 when there is no match.  stops holds
\* "ESC" and the closers of one character.
StringEnd(s, i, stops) ==
  LET later == {j \in i..Len(s) : s[j] \in stops}
      q == IF later = {} THEN 0 ELSE Min(later)
  IN IF q = 0 THEN 0
     ELSE IF s[q] # "ESC" THEN q
     ELSE IF IsAt(s, q, <<"ESC", "\\">>) THEN q + 1
     ELSE 0

\* The end of the match of VT_REGEX that starts at position i, 0 when none
\* starts there: the alternatives in their order.
ControlSequenceEnd(s, i) ==
  IF IsAt(s, i, <<"ESC", "[">>) /\ CsiEnd(s, i + 2) # 0 THEN CsiEnd(s, i + 2)
  ELSE IF s[i] = "CSI" /\ CsiEnd(s, i + 1) # 0 THEN CsiEnd(s, i + 1)
  ELSE IF IsAt(s, i, <<"ESC", "]">>) /\ StringEnd(s, i + 2, {"BEL", "ESC"}) # 0
    THEN StringEnd(s, i + 2, {"BEL", "ESC"})
  ELSE IF s[i] = "OSC" /\ StringEnd(s, i + 1, {"BEL", "ESC"}) # 0
    THEN StringEnd(s, i + 1, {"BEL", "ESC"})
  ELSE IF (\E c \in {"P", "^", "_"} : IsAt(s, i, <<"ESC", c>>))
          /\ StringEnd(s, i + 2, {"ST", "ESC"}) # 0
    THEN StringEnd(s, i + 2, {"ST", "ESC"})
  ELSE IF s[i] \in {"DCS", "PM", "APC"} /\ StringEnd(s, i + 1, {"ST", "ESC"}) # 0
    THEN StringEnd(s, i + 1, {"ST", "ESC"})
  ELSE IF s[i] \in C1Bytes THEN i
  ELSE 0

RECURSIVE StripFrom(_, _)
StripFrom(s, i) ==
  IF i > Len(s) THEN <<>>
  ELSE LET end == ControlSequenceEnd(s, i)
       IN IF end # 0 THEN StripFrom(s, end + 1)
          ELSE <<s[i]>> \o StripFrom(s, i + 1)

\* stripVT(input): input.replace(VT_REGEX, "")
stripVT(input) == StripFrom(input, 1)

\* The loop over the characters of the input: "\b" pops, every other
\* character is pushed (out.pop() on an empty array does nothing).
RECURSIVE BackspacesHandled(_, _)
BackspacesHandled(input, out) ==
  IF input = <<>> THEN out
  ELSE IF Head(input) = "BS"
  THEN BackspacesHandled(Tail(input),
                         IF out = <<>> THEN out ELSE SubSeq(out, 1, Len(out) - 1))
  ELSE BackspacesHandled(Tail(input), Append(out, Head(input)))

\* String.prototype.split(separator) for a separator of one character
RECURSIVE SplitOn(_, _, _)
SplitOn(s, separator, parts) ==
  IF s = <<>> THEN parts
  ELSE IF Head(s) = separator THEN SplitOn(Tail(s), separator, Append(parts, <<>>))
  ELSE SplitOn(Tail(s), separator, [parts EXCEPT ![Len(parts)] = Append(@, Head(s))])

\* Array.prototype.join(separator)
RECURSIVE JoinWith(_, _)
JoinWith(parts, separator) ==
  IF parts = <<>> THEN <<>>
  ELSE IF Len(parts) = 1 THEN parts[1]
  ELSE parts[1] \o <<separator>> \o JoinWith(Tail(parts), separator)

\* The callback of map: a line without "\r" is returned as it is; otherwise
\* every part between two "\r" writes its characters into buf from column
\* 0 on.
Overstruck(line) ==
  LET parts == SplitOn(line, "CR", << <<>> >>)
      width == IF parts = <<>> THEN 0
               ELSE CHOOSE n \in {Len(parts[p]) : p \in 1..Len(parts)} :
                      \A p \in 1..Len(parts) : Len(parts[p]) <= n
      writer(i) == CHOOSE p \in 1..Len(parts) :
                     /\ Len(parts[p]) >= i
                     /\ \A q \in 1..Len(parts) : Len(parts[q]) >= i => q <= p
  IN IF "CR" \notin Range(line) THEN line
     ELSE [i \in 1..width |-> parts[writer(i)][i]]

\* normalizeOverstrikes(input)
normalizeOverstrikes(input) ==
  LET lines == SplitOn(BackspacesHandled(input, <<>>), "LF", << <<>> >>)
  IN IF input = <<>> THEN <<>>
     ELSE JoinWith([k \in 1..Len(lines) |-> Overstruck(lines[k])], "LF")

\* String.prototype.includes
includes(text, searched) == \E i \in 1..(Len(text) + 1) : IsAt(text, i, searched)

\* Mutant: the response is written as it is.
toSend_Raw(response) == response

\* next.response.endsWith("\n") || next.response.endsWith("\r")
\*   ? next.response : `${next.response}\n`
toSend(response) ==
  IF response # <<>> /\ response[Len(response)] \in {"LF", "CR"} THEN response
  ELSE Append(response, "LF")

\* nextPromptIndex++
NextPromptIndex_Stay(i) == i

\* Mutant: the prompt after the answered one is passed over.
NextPromptIndex_Skip(i) == i + 2

NextPromptIndex(i) == i + 1

\* The exit codes of the process.
ExitCodes == {0, 1, 2}

\* The shellCommand argument: empty, or the three words buildShellCommand
\* makes.
ShellCommands == { <<>>, <<"bash", "-c", "x">> }

\* new Error(`Command exited with code ${code}`)
CommandExited(code) ==
  [settled |-> "rejected", code |-> code, output |-> <<>>, error |-> "Command exited with code"]

\* The promise of a call that threw before any process ran: new
\* Error("Shell command cannot be empty"), new Error("PTY spawn failed").
ThrewBeforeRun(message) ==
  [settled |-> "rejected", code |-> 0, output |-> <<>>, error |-> message]

\* The onExit handler settling the promise: all non-zero codes resolve.
onExit_NeverFatal(code, fatal, raw) ==
  [settled |-> "resolved", code |-> code, output |-> raw, error |-> ""]

\* if (code !== 0 && exitOnNonZeroCode) return reject(...); resolve(buffer)
onExit(code, fatal, raw) ==
  IF code # 0 /\ fatal THEN CommandExited(code)
  ELSE [settled |-> "resolved", code |-> code, output |-> raw, error |-> ""]

\* The concatenation of the chunks of a list.
RECURSIVE Concat(_)
Concat(chunks) == IF chunks = <<>> THEN <<>> ELSE Head(chunks) \o Concat(Tail(chunks))

\* The prompts of a run, and the chunks its process prints.
PromptChoices ==
  {[match |-> m, response |-> r] :
     m \in {<<"a">>, <<"b">>, <<"a", "b">>}, r \in {<<"y">>, <<"n", "LF">>, <<"y", "CR">>}}

PromptLists == UNION {[1..n -> PromptChoices] : n \in 0..MaxPrompts}

DataChunks ==
  { <<"a">>, <<"b">>, <<"a", "ESC", "[", "0", "m", "b">>, <<"a", "ESC", "[">>, <<"0", "m">>,
    <<"0", "m", "b">> }

\* ------------------------------------------------------------------ state
VARIABLES
  elements,            \* the loaded element list handed to the constructor
  constructed,         \* "no" | "yes" | "threw": the resolver object
  constructorError,    \* what the constructor threw, NoError otherwise
  elementMap,          \* this.elementMap: the elements in insertion order
  adjacencyList,       \* this.adjacencyList
  inDegree,            \* this.inDegree
  calls,               \* calls of resolveExecutionOrder made on the resolver
  orderOutcome,        \* outcome of the latest resolveExecutionOrder call
  independentOutcome,  \* outcome of the latest getIndependentElements call
  tasks,               \* runPromisePool: the task list (one label per task)
  concurrency,         \* runPromisePool: the concurrency argument
  poolState,           \* "idle" | "running" | "resolved" | "rejected" | "threw"
  taskIndex,           \* the shared counter
  results,             \* the results array
  workers,             \* per worker: state "awaiting" | "finished" | "rejected", currentIndex
  taskState,           \* per task: "pending" | "running" | "fulfilled" | "rejected"
  taskValue,           \* per task: the value its promise fulfilled with
  startCount,          \* per task: how many times the task function was called
  returned,            \* the array runPromisePool resolved with
  settleOrder,         \* history: the task numbers in the order their promises settled
  rejectedWith,        \* Promise.all(workers): the task whose failure it rejects with, 0: none
  pc,                  \* install handler: where its control is ("off": not running)
  seqIndex,            \* install handler: position of the sequential loop in orderedElements
  elemState,           \* per name: executeElement "idle" | "running" | "completed" | "failed"
  stepsDone,           \* per name: steps of the pipeline that completed
  execCount,           \* per name: calls of executeElement
  contextState,        \* "none" | "made": the PipelineContext under test
  context,             \* its readonly data and keys, assignedKeys and runtime data
  written,             \* history: per key, the value of the set call that succeeded
                       \* (ClearedValue once clear() deleted it)
  setCalls,            \* history: number of set and clear calls made on the context
  lastCall,            \* the latest call on the context and its outcome
  executions,          \* per call of executeElement: its progress and history
  contexts,            \* per call of executeElement: the context object it made
  ptyState,            \* runWithPty: "none" | "threw" | "running" | "exited"
  shellCommand,        \* its shellCommand argument
  prompts,             \* its prompts argument
  exitOnNonZeroCode,   \* its exitOnNonZeroCode argument
  buffer,              \* the raw output
  visibleBuffer,       \* the output with control sequences stripped
  nextPromptIndex,     \* index (from 0) of the prompt to match next
  writes,              \* history: the responses written to the process
  writable,            \* whether pty.write still succeeds
  dataEvents,          \* history: number of chunks received
  received,            \* history: the chunks received, in order
  ptyOutcome,          \* how the promise of runWithPty settled
  filterPc,            \* element filter: "off" | "import" | "walk" | "filtered" | "exited"
  elementFilters,      \* argv.element ?? []
  imported,            \* history: the element list as importElements returned it
  required,            \* the Set required
  stack,               \* the array stack
  textInput,           \* terminal text utilities: the input string
  textOutput,          \* what the call returned
  textCall             \* "off" | "none" | "stripVT" | "normalizeOverstrikes"

resolverVars ==
  <<elements, constructed, constructorError, elementMap, adjacencyList,
    inDegree, calls, orderOutcome, independentOutcome>>

poolVars ==
  <<tasks, concurrency, poolState, taskIndex, results, workers, taskState, taskValue,
    startCount, returned, settleOrder, rejectedWith>>

runVars == <<pc, seqIndex, elemState, stepsDone, execCount>>

contextVars == <<contextState, context, written, setCalls, lastCall>>

\* The state of everything a pipeline step works with.
execVars == <<executions, contexts>>

ptyVars ==
  <<ptyState, shellCommand, prompts, exitOnNonZeroCode, buffer, visibleBuffer, nextPromptIndex, writes,
    writable, dataEvents, received, ptyOutcome>>

filterVars == <<filterPc, elementFilters, imported, required, stack>>

textVars == <<textInput, textOutput, textCall>>

stepVars == <<contextVars, execVars, ptyVars, filterVars, textVars>>

vars == <<resolverVars, poolVars, runVars, stepVars>>

NoCall == [op |-> "none", key |-> <<>>, value |-> <<>>, alreadyWritten |-> FALSE,
           outcome |-> Returned(<<>>)]

ContextIdle ==
  /\ contextState = "none"
  /\ context = PipelineContext(<<>>)
  /\ written = NoData
  /\ setCalls = 0
  /\ lastCall = NoCall

ExecIdle ==
  /\ executions = [e \in Executions |-> NotStarted]
  /\ contexts = [e \in Executions |-> PipelineContext(<<>>)]

PtyPending == [settled |-> "pending", code |-> 0, output |-> <<>>, error |-> ""]

PtyIdle ==
  /\ ptyState = "none"
  /\ shellCommand = <<>>
  /\ prompts = <<>>
  /\ exitOnNonZeroCode = TRUE
  /\ buffer = <<>>
  /\ visibleBuffer = <<>>
  /\ nextPromptIndex = 0
  /\ writes = <<>>
  /\ writable = TRUE
  /\ dataEvents = 0
  /\ received = <<>>
  /\ ptyOutcome = PtyPending

FilterIdle(p) ==
  /\ filterPc = p
  /\ elementFilters = <<>>
  /\ imported = <<>>
  /\ required = {}
  /\ stack = <<>>

TextIdle ==
  /\ textInput = <<>>
  /\ textOutput = <<>>
  /\ textCall = "off"

StepIdle == ContextIdle /\ ExecIdle /\ PtyIdle /\ FilterIdle("off") /\ TextIdle

RunIdle(p) ==
  /\ pc = p
  /\ seqIndex = 0
  /\ elemState = [n \in Names |-> "idle"]
  /\ stepsDone = [n \in Names |-> 0]
  /\ execCount = [n \in Names |-> 0]

PoolIdle ==
  /\ tasks = <<>>
  /\ concurrency = 0
  /\ poolState = "idle"
  /\ taskIndex = 0
  /\ results = <<>>
  /\ workers = <<>>
  /\ taskState = <<>>
  /\ taskValue = <<>>
  /\ startCount = <<>>
  /\ returned = <<>>
  /\ settleOrder = <<>>
  /\ rejectedWith = 0

NotCalled == [called |-> FALSE, threw |-> FALSE, order |-> <<>>, error |-> NoError,
              atCalls |-> 0]

NoMap == [n \in {} |-> 0]

ResolverFresh ==
  /\ constructed = "no"
  /\ constructorError = NoError
  /\ elementMap = <<>>
  /\ adjacencyList = NoMap
  /\ inDegree = NoMap
  /\ calls = 0
  /\ orderOutcome = NotCalled
  /\ independentOutcome = NotCalled

\* new DependencyResolver(elements)
ConstructOp ==
  /\ constructed = "no"
  /\ constructorError' = ConstructorError(elements)
  /\ IF ConstructorError(elements) = NoError
     THEN /\ constructed' = "yes"
          /\ elementMap' = elements
          /\ adjacencyList' = BuildAdjacency(elements)
          /\ inDegree' = BuildInDegree(elements)
     ELSE /\ constructed' = "threw"
          /\ UNCHANGED <<elementMap, adjacencyList, inDegree>>
  /\ UNCHANGED <<elements, calls, orderOutcome, independentOutcome>>

\* resolver.resolveExecutionOrder(): topologicalSort works on this.inDegree
\* itself, so the call leaves the decremented degrees behind.
ResolveOutcome(elems, deg, adj, n) ==
  LET sorted == topologicalSort(ElementNames(elems), deg, adj)
  IN IF Len(sorted.result) # Len(elems)
     THEN [called |-> TRUE, threw |-> TRUE, order |-> <<>>,
           error |-> DependencyError("cycle", "", "", detectCycle(elems)),
           atCalls |-> n]
     ELSE [called |-> TRUE, threw |-> FALSE,
           order |-> [i \in 1..Len(sorted.result) |-> ElementNamed(elems, sorted.result[i])],
           error |-> NoError, atCalls |-> n]

ResolveExecutionOrderOp ==
  /\ constructed = "yes"
  /\ calls < MaxCalls
  /\ calls' = calls + 1
  /\ inDegree' = topologicalSort(ElementNames(elementMap), inDegree, adjacencyList).inDegree
  /\ orderOutcome' = ResolveOutcome(elementMap, inDegree, adjacencyList, calls + 1)
  /\ UNCHANGED <<elements, constructed, constructorError, elementMap, adjacencyList,
                 independentOutcome>>

\* resolver.getIndependentElements()
GetIndependentElementsOp ==
  /\ constructed = "yes"
  /\ independentOutcome' = [called |-> TRUE, threw |-> FALSE,
                            order |-> getIndependentElements(elements),
                            error |-> NoError, atCalls |-> calls]
  /\ UNCHANGED <<elements, constructed, constructorError, elementMap, adjacencyList,
                 inDegree, calls, orderOutcome>>

Construct == ConstructOp /\ UNCHANGED <<poolVars, runVars, stepVars>>
ResolveExecutionOrder == ResolveExecutionOrderOp /\ UNCHANGED <<poolVars, runVars, stepVars>>
GetIndependentElements == GetIndependentElementsOp /\ UNCHANGED <<poolVars, runVars, stepVars>>

\* importElements yields one more descriptor (the element list is what the
\* loader found; the resolver is built from it afterwards).
LoadElementOp(room, pipes, datas) ==
  /\ constructed = "no"
  /\ \E pipe \in pipes, data \in datas : \E k \in 1..(room - Len(pipe) - Len(data)) :
       \E e \in ElementsOfSize(k, pipe) :
         elements' = Append(elements, [e EXCEPT !.data = data])
  /\ UNCHANGED <<constructed, constructorError, elementMap, adjacencyList, inDegree,
                 calls, orderOutcome, independentOutcome>>

LoadElement == LoadElementOp(MaxSize - ListSize(elements) + Len(OneStep), {OneStep}, {<<>>}) /\ UNCHANGED <<poolVars, runVars, stepVars>>

InitResolver ==
  /\ elements = <<>>
  /\ ResolverFresh
  /\ PoolIdle
  /\ RunIdle("off")
  /\ StepIdle

NextResolver ==
  \/ LoadElement
  \/ Construct
  \/ ResolveExecutionOrder
  \/ GetIndependentElements

SpecResolver == InitResolver /\ [][NextResolver]_vars

\* ---------------------------------------------------------- pool actions
\* Mutant: Promise.all keeps no rejection.
FirstRejection_None(current, i) == 0

\* Promise.all(workers) rejects with the first rejection of a worker, which is
\* the failure of the task that worker awaited; later rejections are dropped.
FirstRejection(current, i) == IF current = 0 THEN i ELSE current

Packed == [taskIndex |-> taskIndex, workers |-> workers, taskState |-> taskState,
           startCount |-> startCount]

\* runPromisePool(ts, c) up to its await Promise.all(workers).
StartPoolOp(ts, c) ==
  /\ poolState = "idle"
  /\ tasks' = ts
  /\ concurrency' = c
  /\ IF c < 1
     THEN /\ poolState' = "threw"
          /\ UNCHANGED <<taskIndex, results, workers, taskState, taskValue, startCount, returned,
                         settleOrder, rejectedWith>>
     ELSE IF Len(ts) = 0
     THEN /\ poolState' = "resolved"
          /\ UNCHANGED <<taskIndex, results, workers, taskState, taskValue, startCount, returned,
                         settleOrder, rejectedWith>>
     ELSE LET n == Len(ts)
              poolSize == PoolSize(c, n)
              fresh == [taskIndex |-> 0,
                        workers |-> [w \in 1..poolSize |-> [state |-> "new", currentIndex |-> 0]],
                        taskState |-> [i \in 1..n |-> "pending"],
                        startCount |-> [i \in 1..n |-> 0]]
              pl == SpawnWorkers(fresh, 1, poolSize, n)
          IN /\ poolState' = "running"
             /\ results' = [i \in 1..n |-> Empty]
             /\ taskValue' = [i \in 1..n |-> Empty]
             /\ taskIndex' = pl.taskIndex
             /\ workers' = pl.workers
             /\ taskState' = pl.taskState
             /\ startCount' = pl.startCount
             /\ UNCHANGED <<returned, settleOrder, rejectedWith>>

\* The promise of task i fulfils with v.
TaskFulfilOp(i, v) ==
  /\ i \in 1..Len(taskState)
  /\ taskState[i] = "running"
  /\ taskState' = [taskState EXCEPT ![i] = "fulfilled"]
  /\ taskValue' = [taskValue EXCEPT ![i] = v]
  /\ settleOrder' = Append(settleOrder, i)
  /\ UNCHANGED <<tasks, concurrency, poolState, taskIndex, results, workers, startCount,
                 returned, rejectedWith>>

\* The promise of task i rejects.
TaskRejectOp(i) ==
  /\ i \in 1..Len(taskState)
  /\ taskState[i] = "running"
  /\ taskState' = [taskState EXCEPT ![i] = "rejected"]
  /\ settleOrder' = Append(settleOrder, i)
  /\ UNCHANGED <<tasks, concurrency, poolState, taskIndex, results, workers, taskValue,
                 startCount, returned, rejectedWith>>

\* Worker w continues after its await: a fulfilled task's value is stored and
\* the loop goes round; a rejected task ends the worker with that rejection.
WorkerResumeOp(w) ==
  /\ w \in 1..Len(workers)
  /\ workers[w].state = "awaiting"
  /\ LET cur == workers[w].currentIndex
     IN \/ /\ taskState[cur + 1] = "fulfilled"
           /\ results' = StoreResult(results, cur, taskValue[cur + 1])
           /\ LET pl == WorkerLoop(Packed, w, Len(tasks))
              IN /\ taskIndex' = pl.taskIndex
                 /\ workers' = pl.workers
                 /\ taskState' = pl.taskState
                 /\ startCount' = pl.startCount
                 /\ UNCHANGED rejectedWith
        \/ /\ taskState[cur + 1] = "rejected"
           /\ workers' = [workers EXCEPT ![w].state = "rejected"]
           /\ rejectedWith' = FirstRejection(rejectedWith, cur + 1)
           /\ UNCHANGED <<taskIndex, results, taskState, startCount>>
  /\ UNCHANGED <<tasks, concurrency, poolState, taskValue, returned, settleOrder>>

\* Mutant: Promise.allSettled in place of Promise.all, a worker's rejection is
\* not passed on.
PoolSettleOp_AllSettled ==
  /\ poolState = "running"
  /\ \A w \in 1..Len(workers) : workers[w].state \in {"finished", "rejected"}
  /\ poolState' = "resolved"
  /\ returned' = results
  /\ UNCHANGED <<tasks, concurrency, taskIndex, results, workers, taskState, taskValue,
                 startCount, settleOrder, rejectedWith>>

\* await Promise.all(workers) settles: it rejects once a worker has rejected,
\* and resolves, returning results, once every worker has finished.
PoolSettleOp ==
  /\ poolState = "running"
  /\ \/ /\ \E w \in 1..Len(workers) : workers[w].state = "rejected"
        /\ poolState' = "rejected"
        /\ UNCHANGED returned
     \/ /\ \A w \in 1..Len(workers) : workers[w].state = "finished"
        /\ poolState' = "resolved"
        /\ returned' = results
  /\ UNCHANGED <<tasks, concurrency, taskIndex, results, workers, taskState, taskValue,
                 startCount, settleOrder, rejectedWith>>

RunPromisePool ==
  /\ \E n \in 0..MaxTasks, c \in 0..MaxConcurrency : StartPoolOp([i \in 1..n |-> i], c)
  /\ UNCHANGED <<resolverVars, runVars, stepVars>>

TaskFulfil ==
  /\ \E i \in 1..Len(taskState), v \in Values : TaskFulfilOp(i, v)
  /\ UNCHANGED <<resolverVars, runVars, stepVars>>

TaskReject ==
  /\ \E i \in 1..Len(taskState) : TaskRejectOp(i)
  /\ UNCHANGED <<resolverVars, runVars, stepVars>>

WorkerResume ==
  /\ \E w \in 1..Len(workers) : WorkerResumeOp(w)
  /\ UNCHANGED <<resolverVars, runVars, stepVars>>

PoolSettle ==
  /\ PoolSettleOp
  /\ UNCHANGED <<resolverVars, runVars, stepVars>>

InitPool ==
  /\ elements = <<>>
  /\ ResolverFresh
  /\ PoolIdle
  /\ RunIdle("off")
  /\ StepIdle

NextPool ==
  \/ RunPromisePool
  \/ TaskFulfil
  \/ TaskReject
  \/ WorkerResume
  \/ PoolSettle

SpecPool == InitPool /\ [][NextPool]_vars

\* The event loop runs every continuation that is ready (WorkerResume,
\* PoolSettle), the caller makes its call, and the promise of a started task
\* settles sooner or later.
FairSpecPool ==
  /\ SpecPool
  /\ WF_vars(RunPromisePool)
  /\ WF_vars(TaskFulfil \/ TaskReject)
  /\ WF_vars(WorkerResume)
  /\ WF_vars(PoolSettle)

\* ------------------------------------------------ the install handler
\* Mutant: as many workers as there are elements.
maxParallelIndependent_OnePerElement == Len(elements)

\* const maxParallelIndependent = 4
maxParallelIndependent == 4

\* What executeElement's promise fulfils with (Promise<void>).
Undefined == "undefined"

\* The pipelines of the loaded descriptors: up to MaxSteps steps.
RunPipelines == UNION {[1..k -> {"tool"}] : k \in 0..MaxSteps}

\* The other keys of the loaded descriptors: none, or a key of the file's
\* own at ctx.storageDirectory.
RunDatas == { <<>>, <<Leaf(<<"ctx", "storageDirectory">>, <<"v">>)>> }

\* Size of a loaded list in a run: the descriptors, their pipeline steps and
\* their other keys.
RECURSIVE RunListSize(_)
RunListSize(elems) ==
  IF elems = <<>> THEN 0
  ELSE ElementSize(Head(elems)) + Len(Head(elems).pipeline) + Len(Head(elems).data)
       + RunListSize(Tail(elems))

\* The descriptor that executeElement hands to new PipelineContext(element).
ElementData(e) == <<Leaf(<<"name">>, <<e.name>>)>> \o e.data

\* The descriptors for which context.set("ctx.storageDirectory", ...)
\* throws a ContextError on the context just made.
SetupRejecting ==
  {d \in {ElementData([name |-> n, data |-> data]) : n \in LoadNames, data \in RunDatas} :
     SetRejected(PipelineContext(d), StorageDirectoryKey)}

\* executeElement(element, ...) throws before its loop.
SetupThrows(e) == ElementData(e) \in SetupRejecting

orderedElements == orderOutcome.order
independentElements == independentOutcome.order
independentSet == {independentElements[i].name : i \in 1..Len(independentElements)}

PipelineOf(n) == ElementNamed(elements, n).pipeline

\* The pool task that runs element n: () => executeElement(element, ...).
TaskOf(n) == Min({i \in 1..Len(tasks) : tasks[i] = n})
IsPoolTask(n) == \E i \in 1..Len(tasks) : tasks[i] = n

\* Calls of task i made by the step being taken.
NewCalls(i) ==
  startCount'[i] - (IF i \in 1..Len(startCount) THEN startCount[i] ELSE 0)

\* executeElement up to its first await, for every task function the pool
\* calls in this step: a call of executeElement begins the element's pipeline.
ElementsStartedByPool ==
  LET startedNow(n) == \E i \in 1..Len(tasks') : tasks'[i] = n /\ NewCalls(i) > 0
      callsNow(n) == NewCalls(Min({i \in 1..Len(tasks') : tasks'[i] = n}))
  IN /\ elemState' = [n \in Names |-> IF startedNow(n) THEN "running" ELSE elemState[n]]
     /\ stepsDone' = [n \in Names |-> IF startedNow(n) THEN 0 ELSE stepsDone[n]]
     /\ execCount' = [n \in Names |->
                        IF startedNow(n) THEN execCount[n] + callsNow(n) ELSE execCount[n]]

\* executeElement(element, ...) called by the sequential loop.
StartElementOp(n) ==
  /\ elemState' = [elemState EXCEPT ![n] = "running"]
  /\ stepsDone' = [stepsDone EXCEPT ![n] = 0]
  /\ execCount' = [execCount EXCEPT ![n] = @ + 1]

\* Mutant: the loop does not skip the elements of independentSet.
NextSequential_NoSkip(k) == (k + 1)..Len(orderedElements)

\* The sequential loop from position k on: skip the names of independentSet,
\* call executeElement for the next other element, or leave the loop.
NextSequential(k) ==
  {j \in (k + 1)..Len(orderedElements) : orderedElements[j].name \notin independentSet}

SequentialLoopOp(k) ==
  IF NextSequential(k) = {}
  THEN /\ pc' = "completed"
       /\ seqIndex' = Len(orderedElements) + 1
       /\ UNCHANGED <<elemState, stepsDone, execCount>>
  ELSE /\ pc' = "sequential"
       /\ seqIndex' = Min(NextSequential(k))
       /\ StartElementOp(orderedElements[Min(NextSequential(k))].name)

\* Mutant: the DependencyError is swallowed and the handler goes on.
OnDependencyError_Swallowed(threw, next) == next

\* catch (error) { if (error instanceof DependencyError) { failure(...);
\* process.exit(1) } }: where the handler's control goes after a resolver call.
OnDependencyError(threw, next) == IF threw THEN "aborted" ELSE next

\* importElements finds no element file: failure(...) and process.exit(1).
HandlerNoElements ==
  /\ pc = "start"
  /\ elements = <<>>
  /\ pc' = "exited"
  /\ UNCHANGED <<resolverVars, poolVars, seqIndex, elemState, stepsDone, execCount, stepVars>>

\* new DependencyResolver(elements), on the list importElements returned (one
\* element for every file found, and at least one file); a DependencyError
\* ends the run.
HandlerConstruct ==
  /\ pc = "start"
  /\ elements # <<>>
  /\ ConstructOp
  /\ pc' = OnDependencyError(constructed' = "threw", "resolve")
  /\ UNCHANGED <<poolVars, seqIndex, elemState, stepsDone, execCount, stepVars>>

\* importElements, before the handler's try block.
HandlerLoadElement ==
  /\ pc = "start"
  /\ LoadElementOp(MaxRunSize - RunListSize(elements), RunPipelines, RunDatas)
  /\ UNCHANGED <<poolVars, runVars, stepVars>>

\* resolver.resolveExecutionOrder(); a DependencyError ends the run.
HandlerResolveOrder ==
  /\ pc = "resolve"
  /\ ResolveExecutionOrderOp
  /\ pc' = OnDependencyError(orderOutcome'.threw, "independent")
  /\ UNCHANGED <<poolVars, seqIndex, elemState, stepsDone, execCount, stepVars>>

\* resolver.getIndependentElements() and the independentSet.
HandlerGetIndependent ==
  /\ pc = "independent"
  /\ GetIndependentElementsOp
  /\ pc' = "schedule"
  /\ UNCHANGED <<poolVars, seqIndex, elemState, stepsDone, execCount, stepVars>>

\* if (independentElements.length > 0) await runPromisePool(...): the pool's
\* workers call executeElement for the first elements at once.  With no
\* independent element the handler goes on to the sequential loop.
HandlerSchedule ==
  /\ pc = "schedule"
  /\ IF Len(independentElements) > 0
     THEN /\ StartPoolOp([i \in 1..Len(independentElements) |-> independentElements[i].name],
                         maxParallelIndependent)
          /\ ElementsStartedByPool
          /\ pc' = "pool"
          /\ UNCHANGED seqIndex
     ELSE /\ SequentialLoopOp(0)
          /\ UNCHANGED poolVars
  /\ UNCHANGED <<resolverVars, stepVars>>

\* The promise of runPromisePool settles (await Promise.all(workers) in the
\* pool); the handler is still at its await.
HandlerPoolSettles ==
  /\ pc = "pool"
  /\ PoolSettleOp
  /\ UNCHANGED <<resolverVars, runVars, stepVars>>

\* The handler continues after await runPromisePool(...): the sequential
\* loop begins, or the await throws the failure of an element, which the
\* handler rethrows.
HandlerPoolSettled ==
  /\ pc = "pool"
  /\ poolState \in {"resolved", "rejected"}
  /\ IF poolState = "rejected"
     THEN /\ pc' = "failed"
          /\ UNCHANGED <<seqIndex, elemState, stepsDone, execCount>>
     ELSE SequentialLoopOp(0)
  /\ UNCHANGED <<resolverVars, poolVars, stepVars>>

\* The await of executeElement in the sequential loop returns or throws.
HandlerSequentialNext ==
  /\ pc = "sequential"
  /\ LET n == orderedElements[seqIndex].name
     IN \/ /\ elemState[n] = "completed"
           /\ SequentialLoopOp(seqIndex)
        \/ /\ elemState[n] = "failed"
           /\ pc' = "failed"
           /\ UNCHANGED <<seqIndex, elemState, stepsDone, execCount>>
  /\ UNCHANGED <<stepVars, resolverVars, poolVars>>

\* A pool worker continues after its await and calls the next task.
HandlerWorkerResume ==
  /\ \E w \in 1..Len(workers) : WorkerResumeOp(w)
  /\ ElementsStartedByPool
  /\ UNCHANGED <<stepVars, resolverVars, pc, seqIndex>>

\* What the end of element n's executeElement does to the promise the pool
\* awaits (nothing for an element of the sequential loop).
SettleTaskOf(n, ok) ==
  IF IsPoolTask(n)
  THEN IF ok THEN TaskFulfilOp(TaskOf(n), Undefined) ELSE TaskRejectOp(TaskOf(n))
  ELSE UNCHANGED poolVars

\* executeElement: the awaited tool.execute of the current step resolves; the
\* next step is dispatched, or the function returns after the last step.
ElementStepOk ==
  \E n \in Names :
    /\ elemState[n] = "running"
    /\ ~SetupThrows(ElementNamed(elements, n))
    /\ stepsDone[n] < Len(PipelineOf(n))
    /\ stepsDone' = [stepsDone EXCEPT ![n] = @ + 1]
    /\ IF stepsDone[n] + 1 = Len(PipelineOf(n))
       THEN /\ elemState' = [elemState EXCEPT ![n] = "completed"]
            /\ SettleTaskOf(n, TRUE)
       ELSE /\ UNCHANGED elemState
            /\ UNCHANGED poolVars
    /\ UNCHANGED <<stepVars, resolverVars, pc, seqIndex, execCount>>

\* executeElement: template expansion or tool.execute of the current step
\* throws; the catch block rethrows and the remaining steps are not run.
ElementStepFail ==
  \E n \in Names :
    /\ elemState[n] = "running"
    /\ ~SetupThrows(ElementNamed(elements, n))
    /\ stepsDone[n] < Len(PipelineOf(n))
    /\ elemState' = [elemState EXCEPT ![n] = "failed"]
    /\ SettleTaskOf(n, FALSE)
    /\ UNCHANGED <<stepVars, resolverVars, pc, seqIndex, stepsDone, execCount>>

\* executeElement of an element whose pipeline is empty returns.
ElementReturnEmpty ==
  \E n \in Names :
    /\ elemState[n] = "running"
    /\ ~SetupThrows(ElementNamed(elements, n))
    /\ Len(PipelineOf(n)) = 0
    /\ elemState' = [elemState EXCEPT ![n] = "completed"]
    /\ SettleTaskOf(n, TRUE)
    /\ UNCHANGED <<stepVars, resolverVars, pc, seqIndex, stepsDone, execCount>>

\* executeElement: context.set("ctx.storageDirectory", storageDirectory)
\* throws a ContextError, the descriptor having a key of its own there; the
\* loop is not entered and the promise of the call rejects.
ElementSetupFails ==
  \E n \in Names :
    /\ elemState[n] = "running"
    /\ SetupThrows(ElementNamed(elements, n))
    /\ elemState' = [elemState EXCEPT ![n] = "failed"]
    /\ SettleTaskOf(n, FALSE)
    /\ UNCHANGED <<stepVars, resolverVars, pc, seqIndex, stepsDone, execCount>>

InitRun ==
  /\ elements = <<>>
  /\ ResolverFresh
  /\ PoolIdle
  /\ RunIdle("start")
  /\ StepIdle

NextRun ==
  \/ HandlerLoadElement
  \/ HandlerNoElements
  \/ HandlerConstruct
  \/ HandlerResolveOrder
  \/ HandlerGetIndependent
  \/ HandlerSchedule
  \/ HandlerPoolSettles
  \/ HandlerPoolSettled
  \/ HandlerSequentialNext
  \/ HandlerWorkerResume
  \/ ElementStepOk
  \/ ElementStepFail
  \/ ElementReturnEmpty
  \/ ElementSetupFails

SpecRun == InitRun /\ [][NextRun]_vars

\* A run over a loaded list with more independent elements than the pool has
\* workers: five elements without dependencies and two with, none of them
\* with a key of its own at ctx.storageDirectory.
WideList ==
  << MkElement("A", FALSE, <<>>, OneStep), MkElement("B", FALSE, <<>>, OneStep),
     MkElement("F", TRUE, <<"A">>, OneStep), MkElement("C", TRUE, <<>>, OneStep),
     MkElement("D", FALSE, <<>>, <<>>), MkElement("G", TRUE, <<"B", "F">>, <<>>),
     MkElement("E", FALSE, <<>>, OneStep) >>

InitWideRun ==
  /\ elements = WideList
  /\ ResolverFresh
  /\ PoolIdle
  /\ RunIdle("start")
  /\ StepIdle

NextWideRun ==
  \/ HandlerConstruct
  \/ HandlerResolveOrder
  \/ HandlerGetIndependent
  \/ HandlerSchedule
  \/ HandlerPoolSettles
  \/ HandlerPoolSettled
  \/ HandlerSequentialNext
  \/ HandlerWorkerResume
  \/ ElementStepOk
  \/ ElementStepFail
  \/ ElementReturnEmpty

SpecWideRun == InitWideRun /\ [][NextWideRun]_vars

\* -------------------------------------------------------- element filter
\* The install handler between importElements and new DependencyResolver.

\* elementLookup.has(name), for new Map(elements.map((el) => [el.name, el]))
LookupHas(elems, name) == \E i \in 1..Len(elems) : elems[i].name = name

\* elementLookup.get(name): of two entries with one key the Map keeps the
\* later one.
LookupGet(elems, name) ==
  elems[CHOOSE i \in 1..Len(elems) :
          elems[i].name = name /\ \A j \in 1..Len(elems) : elems[j].name = name => j <= i]

\* Mutant: no dependency is pushed.
PushDependencies_None(rest, dependencies, seen) == rest

\* for (const dep of dependencies) if (!required.has(dep)) stack.push(dep),
\* once every such dep was found in the list.
PushDependencies(rest, dependencies, seen) ==
  rest \o SelectSeq(dependencies, LAMBDA dep : dep \notin seen)

\* The values argv.element takes.
ElementFilterLists == UNION {[1..n -> LoadNames] : n \in 0..MaxFilters}

\* The pipeline of the descriptors of the list under filter.
FilterPipeline == <<>>

FilterLoadElement ==
  /\ filterPc = "import"
  /\ LoadElementOp(MaxFilterSize - ListSize(elements), {FilterPipeline}, {<<>>})
  /\ UNCHANGED <<poolVars, runVars, contextVars, execVars, ptyVars, filterVars, textVars>>

\* const elementFilters = argv.element ?? []; no filter leaves the list as
\* it is, a requested name that is not in the list ends the process,
\* otherwise stack = [...elementFilters].
FilterStart ==
  /\ filterPc = "import"
  /\ elements # <<>>
  /\ \E filters \in ElementFilterLists :
       /\ elementFilters' = filters
       /\ filterPc' = IF filters = <<>> THEN "filtered"
                      ELSE IF \E i \in 1..Len(filters) : ~LookupHas(elements, filters[i])
                      THEN "exited"
                      ELSE "walk"
       /\ stack' = IF filterPc' = "walk" THEN filters ELSE <<>>
  /\ imported' = elements
  /\ required' = {}
  /\ UNCHANGED <<resolverVars, poolVars, runVars, contextVars, execVars, ptyVars, textVars>>

\* One iteration of while (stack.length > 0): pop; a name already required
\* is passed over; otherwise it is added and its dependencies that are not
\* required yet are pushed, and one of them that is not in the list ends the
\* process.
FilterWalk ==
  /\ filterPc = "walk"
  /\ stack # <<>>
  /\ LET current == stack[Len(stack)]
         popped == SubSeq(stack, 1, Len(stack) - 1)
         dependencies == Dependencies(LookupGet(elements, current))
         added == required \cup {current}
         pending(dep) == dep \notin added
     IN IF current \in required
        THEN /\ stack' = popped
             /\ UNCHANGED <<required, filterPc>>
        ELSE /\ required' = added
             /\ IF \E i \in 1..Len(dependencies) :
                     pending(dependencies[i]) /\ ~LookupHas(elements, dependencies[i])
                THEN filterPc' = "exited" /\ stack' = popped
                ELSE /\ stack' = PushDependencies(popped, dependencies, added)
                     /\ UNCHANGED filterPc
  /\ UNCHANGED <<elementFilters, imported>>
  /\ UNCHANGED <<resolverVars, poolVars, runVars, contextVars, execVars, ptyVars, textVars>>

\* elements = elements.filter((element) => required.has(element.name)): the
\* list handed to new DependencyResolver.
FilterApply ==
  /\ filterPc = "walk"
  /\ stack = <<>>
  /\ elements' = SelectSeq(elements, LAMBDA e : e.name \in required)
  /\ filterPc' = "filtered"
  /\ UNCHANGED <<constructed, constructorError, elementMap, adjacencyList, inDegree,
                 calls, orderOutcome, independentOutcome>>
  /\ UNCHANGED <<elementFilters, imported, required, stack>>
  /\ UNCHANGED <<poolVars, runVars, contextVars, execVars, ptyVars, textVars>>

InitFilter ==
  /\ elements = <<>>
  /\ ResolverFresh
  /\ PoolIdle
  /\ RunIdle("off")
  /\ ContextIdle /\ ExecIdle /\ PtyIdle /\ TextIdle
  /\ FilterIdle("import")

NextFilter ==
  \/ FilterLoadElement
  \/ FilterStart
  \/ FilterWalk
  \/ FilterApply

SpecFilter == InitFilter /\ [][NextFilter]_vars

\* The loop and the statements after it run without waiting for anything.
FairSpecFilter == SpecFilter /\ WF_vars(FilterWalk \/ FilterApply)

\* ------------------------------------------------ terminal text utilities
\* The strings handed to stripVT and normalizeOverstrikes.
VTCharacters == {"ESC", "[", "]", "P", "\\", "BEL", "ST", "CSI", "OSC", "PAD", "0", "m"}
OverstrikeCharacters == {"a", "b", "BS", "CR", "LF"}

TextInputs ==
  UNION {[1..n -> VTCharacters] : n \in 0..MaxVTText}
  \cup UNION {[1..n -> OverstrikeCharacters] : n \in 0..MaxLineText}

\* stripVT(input)
StripVT ==
  /\ textCall = "none"
  /\ textOutput' = stripVT(textInput)
  /\ textCall' = "stripVT"
  /\ UNCHANGED textInput
  /\ UNCHANGED <<resolverVars, poolVars, runVars, contextVars, execVars, ptyVars, filterVars>>

\* normalizeOverstrikes(input)
NormalizeOverstrikes ==
  /\ textCall = "none"
  /\ textOutput' = normalizeOverstrikes(textInput)
  /\ textCall' = "normalizeOverstrikes"
  /\ UNCHANGED textInput
  /\ UNCHANGED <<resolverVars, poolVars, runVars, contextVars, execVars, ptyVars, filterVars>>

InitText ==
  /\ elements = <<>>
  /\ ResolverFresh
  /\ PoolIdle
  /\ RunIdle("off")
  /\ ContextIdle /\ ExecIdle /\ PtyIdle /\ FilterIdle("off")
  /\ textInput \in TextInputs
  /\ textOutput = <<>>
  /\ textCall = "none"

NextText ==
  \/ StripVT
  \/ NormalizeOverstrikes

SpecText == InitText /\ [][NextText]_vars

\* ------------------------------------------------------- context actions
\* The element descriptors a context is built from: each is the object of
\* its leaves.  The pipeline is part of every descriptor; metadata and other
\* keys are optional (additionalProperties: true).
ElementDatas ==
  { <<Leaf(<<"name">>, <<"A">>), Leaf(<<"__proto__">>, <<"dir">>),
      Leaf(<<"pipeline", "0", "tool">>, <<"v">>)>>,
    <<Leaf(<<"metadata", "dependencies", "0">>, <<"B">>),
      Leaf(<<"metadata", "__proto__", "out">>, <<"v">>), Leaf(<<"name">>, <<"A">>),
      Leaf(<<"pipeline", "0", "tool">>, <<"v">>)>>,
    <<Leaf(<<"name">>, <<"A">>), Leaf(<<"myKey">>, <<"v">>), Leaf(<<"my-key">>, <<"dir">>),
      Leaf(<<"pipeline", "0", "tool">>, <<"v">>)>> }

\* The keys handed to set and get.
KeyPaths ==
  { <<"ctx">>, <<"ctx", "storageDirectory">>, <<"name">>, <<"name", "out">>,
    <<"myKey">>, <<"metadata", "dependencies", "0">> }

Keys == {Join(p) : p \in KeyPaths}

\* The keys handed to get, has and resolve: one more, that no set wrote.
ReadKeys == Keys \cup {Join(<<"constructor">>)}

\* The values handed to set.
SetValues == { <<"v">>, <<"$", "$">>, Interpolation(<<"myKey">>) }

\* The set calls made: the keys that a context can accept with the plain
\* values, the keys under ctx also with a value that holds an interpolation,
\* and with one value the keys that every context rejects and two keys that
\* dset does not assign.
SetArguments ==
  {<<Join(p), value>> :
     p \in {<<"ctx">>, <<"ctx", "storageDirectory">>, <<"name", "out">>, <<"myKey">>},
     value \in SetValues \ {Interpolation(<<"myKey">>)}}
  \cup {<<Join(p), Interpolation(<<"myKey">>)>> :
          p \in {<<"ctx">>, <<"ctx", "storageDirectory">>}}
  \cup {<<Join(p), <<"v">>>> :
          p \in {<<"name">>, <<"metadata", "dependencies", "0">>,
                 <<"constructor">>, <<"prototype">>}}

\* The strings handed to processTemplate.
Templates ==
  {Interpolation(p) : p \in KeyPaths \cup {<<"constructor">>}}
  \cup {Assignment(p) : p \in {<<"ctx">>, <<"name", "out">>}}
  \cup { <<"dir">>,
         Interpolation(<<"name">>) \o <<"/">> \o Interpolation(<<"ctx", "storageDirectory">>),
         Interpolation(<<"name">>) \o <<"/">> \o Interpolation(<<"ctx">>),
         Interpolation(<<"ctx", "storageDirectory">>) \o <<"/">>
           \o Interpolation(<<"myKey">>),
         <<"$", "{", "{">> \o Join(<<"name">>) \o <<"}", "}">> }

\* new PipelineContext(elementData)
ContextConstruct ==
  /\ contextState = "none"
  /\ \E elementData \in ElementDatas : context' = PipelineContext(elementData)
  /\ contextState' = "made"
  /\ UNCHANGED <<written, setCalls, lastCall>>
  /\ UNCHANGED <<resolverVars, poolVars, runVars, execVars, ptyVars, filterVars, textVars>>

\* context.set(key, value)
ContextSet ==
  /\ contextState = "made"
  /\ setCalls < MaxSets
  /\ \E arguments \in SetArguments :
       \E key \in {arguments[1]}, value \in {arguments[2]} :
       \E rejected \in {SetRejected(context, key)} :
         /\ context' = RuntimeContextSet(context, key, value)
         /\ lastCall' = [op |-> "set", key |-> key, value |-> value,
                         alreadyWritten |-> key \in DOMAIN written,
                         outcome |-> IF rejected THEN Threw("ContextError")
                                     ELSE Returned(UndefinedValue)]
         /\ written' = IF rejected THEN written ELSE (key :> value) @@ written
  /\ setCalls' = setCalls + 1
  /\ UNCHANGED contextState
  /\ UNCHANGED <<resolverVars, poolVars, runVars, execVars, ptyVars, filterVars, textVars>>

\* context.get(key)
ContextGet ==
  /\ contextState = "made"
  /\ \E key \in ReadKeys :
       lastCall' = [op |-> "get", key |-> key, value |-> <<>>, alreadyWritten |-> FALSE,
                    outcome |-> Returned(RuntimeContextGet(context, key))]
  /\ UNCHANGED <<contextState, context, written, setCalls>>
  /\ UNCHANGED <<resolverVars, poolVars, runVars, execVars, ptyVars, filterVars, textVars>>

\* context.has(key)
ContextHas ==
  /\ contextState = "made"
  /\ \E key \in ReadKeys :
       lastCall' = [op |-> "has", key |-> key, value |-> <<>>, alreadyWritten |-> FALSE,
                    outcome |-> Returned(RuntimeContextHas(context, key))]
  /\ UNCHANGED <<contextState, context, written, setCalls>>
  /\ UNCHANGED <<resolverVars, poolVars, runVars, execVars, ptyVars, filterVars, textVars>>

\* context.resolve(path)
ContextResolve ==
  /\ contextState = "made"
  /\ \E path \in ReadKeys :
       lastCall' = [op |-> "resolve", key |-> path, value |-> <<>>, alreadyWritten |-> FALSE,
                    outcome |-> Returned(RuntimeContextResolve(context, path))]
  /\ UNCHANGED <<contextState, context, written, setCalls>>
  /\ UNCHANGED <<resolverVars, poolVars, runVars, execVars, ptyVars, filterVars, textVars>>

\* context.clear(): every key of the runtime data is deleted and
\* assignedKeys emptied.
ContextClear ==
  /\ contextState = "made"
  /\ setCalls < MaxSets
  /\ setCalls' = setCalls + 1
  /\ context' = [context EXCEPT !.data = NoData, !.assignedKeys = {}]
  /\ lastCall' = [op |-> "clear", key |-> <<>>, value |-> <<>>, alreadyWritten |-> FALSE,
                  outcome |-> Returned(UndefinedValue)]
  /\ written' = [key \in DOMAIN written |-> ClearedValue]
  /\ UNCHANGED contextState
  /\ UNCHANGED <<resolverVars, poolVars, runVars, execVars, ptyVars, filterVars, textVars>>

\* context.processTemplate(template)
ContextProcessTemplate ==
  /\ contextState = "made"
  /\ \E template \in Templates :
       lastCall' = [op |-> "processTemplate", key |-> template, value |-> <<>>,
                    alreadyWritten |-> FALSE,
                    outcome |-> processTemplate(template, context.readonlyData, context.data)]
  /\ UNCHANGED <<contextState, context, written, setCalls>>
  /\ UNCHANGED <<resolverVars, poolVars, runVars, execVars, ptyVars, filterVars, textVars>>

InitContext ==
  /\ elements = <<>>
  /\ ResolverFresh
  /\ PoolIdle
  /\ RunIdle("off")
  /\ StepIdle

NextContext ==
  \/ ContextConstruct
  \/ ContextSet
  \/ ContextGet
  \/ ContextHas
  \/ ContextResolve
  \/ ContextClear
  \/ ContextProcessTemplate

SpecContext == InitContext /\ [][NextContext]_vars

\* ------------------------------------------- processObjectTemplate actions
\* The contexts the objects are expanded in: made from a descriptor, with
\* at most one Variable set.
ObjectContexts ==
  {PipelineContext(elementData) : elementData \in ElementDatas}
  \cup {RuntimeContextSet(PipelineContext(elementData), key, value) :
          elementData \in ElementDatas, key \in Keys, value \in SetValues}

\* The values handed to processObjectTemplate.
ObjectStrings ==
  { <<"dir">>, Interpolation(<<"name">>), Interpolation(<<"ctx">>),
    Assignment(<<"ctx">>), Interpolation(<<"myKey">>) \o <<"/">> \o Interpolation(<<"name">>) }

ObjectLeaves == {StringOf(t) : t \in ObjectStrings} \cup {PrimitiveOf(<<"1">>), NullValue}

ObjectInputs ==
  ObjectLeaves
  \cup {ArrayOf(<<a, b>>) : a \in ObjectLeaves, b \in ObjectLeaves}
  \cup {ObjectOf(<<[key |-> k, value |-> a]>>) :
          k \in {"command", "", "__proto__"}, a \in ObjectLeaves}
  \cup {ObjectOf(<<[key |-> "args", value |-> ArrayOf(<<a, PrimitiveOf(<<"1">>)>>)],
                   [key |-> k, value |-> b]>>) :
          k \in {"command", "", "__proto__"}, a \in ObjectLeaves,
          b \in {StringOf(<<"dir">>), NullValue}}

\* context.processObjectTemplate(obj)
ContextProcessObjectTemplate ==
  /\ contextState = "made"
  /\ lastCall.op = "none"
  /\ \E obj \in ObjectInputs :
       \E r \in {processObjectTemplate(obj, context.readonlyData, context.data)} :
         lastCall' = [op |-> "processObjectTemplate", key |-> <<>>, value |-> <<>>,
                      alreadyWritten |-> FALSE,
                      outcome |-> IF r.threw # "none" THEN Threw(r.threw)
                                  ELSE Returned(<<>>),
                      object |-> obj, copy |-> r.value]
  /\ UNCHANGED <<contextState, context, written, setCalls>>
  /\ UNCHANGED <<resolverVars, poolVars, runVars, execVars, ptyVars, filterVars, textVars>>

InitObject ==
  /\ elements = <<>>
  /\ ResolverFresh
  /\ PoolIdle
  /\ RunIdle("off")
  /\ ExecIdle /\ PtyIdle /\ FilterIdle("off") /\ TextIdle
  /\ contextState = "made"
  /\ context \in ObjectContexts
  /\ written = NoData
  /\ setCalls = 0
  /\ lastCall = NoCall

NextObject == ContextProcessObjectTemplate

SpecObject == InitObject /\ [][NextObject]_vars

\* -------------------------------------------------- executeElement actions
\* for (let i = 0; i < pipeline.length; i++): the execution e, in the state
\* x and with the context c, arrives at step i.
EnterStep(e, x, c, i) ==
  IF i > Len(x.pipeline)
  THEN executions' = [executions EXCEPT ![e] = [x EXCEPT !.phase = "completed", !.step = 0]]
  ELSE \E processedParams \in {PipelineContextProcessObjectTemplate(x.pipeline[i].params, c)} :
       \E inTool \in {processTemplate(processedParams.param, c.readonlyData, c.data)} :
         executions' = [executions EXCEPT
                          ![e] = StepAt(x, i, c.data, processedParams, inTool)]

\* executeElement(element, tools, storageDirectory), up to the first await:
\* the context is made, ctx.storageDirectory set and the loop entered.
ExecuteElement(e) ==
  /\ executions[e].phase = "idle"
  /\ \E element \in ExecElements, pipeline \in Pipelines :
     \E created \in {PipelineContext(element)} :
     \E x \in {[NotStarted EXCEPT !.pipeline = pipeline, !.element = element]} :
       IF SetRejected(created, StorageDirectoryKey)
       THEN /\ executions' = [executions EXCEPT
                                ![e] = [x EXCEPT !.phase = "failed", !.error = SetupFailure]]
            /\ contexts' = [contexts EXCEPT ![ContextSlot(e)] = created]
       ELSE \E c \in {RuntimeContextSet(created, StorageDirectoryKey, storageDirectory)} :
              /\ EnterStep(e, x, c, 1)
              /\ contexts' = [contexts EXCEPT ![ContextSlot(e)] = c]
  /\ UNCHANGED <<resolverVars, poolVars, runVars, contextVars, ptyVars, filterVars, textVars>>

\* The awaited command of the tool of the step in flight succeeds: the tool
\* continues and stores its output with context.set, and its promise
\* settles.  When the set throws, clone-repository first awaits the removal
\* of the clone directory.
ToolResolves(e) ==
  /\ executions[e].phase = "awaiting"
  /\ \E x \in {executions[e]}, c \in {contexts[ContextSlot(e)]} :
     \E outputKey \in {OutputKey(x.pipeline[x.step].tool,
                                 PipelineContextProcessObjectTemplate(
                                   x.pipeline[x.step].params, c).outputAssign)} :
       LET i == x.step
           item == x.pipeline[i]
           call == [key |-> outputKey, value |-> ToolOutput, step |-> i,
                    accepted |-> ~SetRejected(c, outputKey)]
       IN IF outputKey = <<>>
          THEN /\ executions' = [executions EXCEPT ![e] = [x EXCEPT !.phase = "toolResolved"]]
               /\ UNCHANGED contexts
          ELSE IF SetRejected(c, outputKey)
          THEN /\ executions' = [executions EXCEPT
                   ![e] = [x EXCEPT !.phase = IF item.tool = "clone-repository"
                                              THEN "cleanup" ELSE "toolRejected",
                                    !.sets = Append(@, call)]]
               /\ UNCHANGED contexts
          ELSE /\ executions' = [executions EXCEPT
                   ![e] = [x EXCEPT !.phase = "toolResolved", !.sets = Append(@, call)]]
               /\ contexts' = [contexts EXCEPT
                   ![ContextSlot(e)] = RuntimeContextSet(c, outputKey, ToolOutput)]
  /\ UNCHANGED <<resolverVars, poolVars, runVars, contextVars, ptyVars, filterVars, textVars>>

\* The awaited command of the tool fails: execute-bash-command throws on,
\* clone-repository first awaits the removal of the clone directory.
ToolRejects(e) ==
  /\ executions[e].phase = "awaiting"
  /\ LET x == executions[e]
     IN executions' = [executions EXCEPT
          ![e] = [x EXCEPT !.phase = IF x.pipeline[x.step].tool = "clone-repository"
                                     THEN "cleanup" ELSE "toolRejected"]]
  /\ UNCHANGED contexts
  /\ UNCHANGED <<resolverVars, poolVars, runVars, contextVars, ptyVars, filterVars, textVars>>

\* clone-repository: the awaited rm -rf of the clone directory ends (its own
\* failure is only reported) and execute throws the error it caught.
CleanupEnds(e) ==
  /\ executions[e].phase = "cleanup"
  /\ executions' = [executions EXCEPT ![e].phase = "toolRejected"]
  /\ UNCHANGED contexts
  /\ UNCHANGED <<resolverVars, poolVars, runVars, contextVars, ptyVars, filterVars, textVars>>

\* executeElement continues after await tool.execute(...) returned: the step
\* is completed and the loop goes on to the next step.
StepCompleted(e) ==
  /\ executions[e].phase = "toolResolved"
  /\ \E x \in {executions[e]}, c \in {contexts[ContextSlot(e)]} :
     \E done \in {[x EXCEPT !.log = Append(@, <<"completed", x.step>>)]} :
       EnterStep(e, done, c, x.step + 1)
  /\ UNCHANGED contexts
  /\ UNCHANGED <<resolverVars, poolVars, runVars, contextVars, ptyVars, filterVars, textVars>>

\* executeElement continues after await tool.execute(...) threw: the catch
\* block reports the failure, wraps the error and rethrows.
StepFailed(e) ==
  /\ executions[e].phase = "toolRejected"
  /\ LET x == executions[e]
     IN executions' = [executions EXCEPT
          ![e] = [x EXCEPT !.phase = "failed",
                           !.error = StepFailure(x.step, x.pipeline[x.step].tool),
                           !.log = Append(@, <<"failed", x.step>>)]]
  /\ UNCHANGED contexts
  /\ UNCHANGED <<resolverVars, poolVars, runVars, contextVars, ptyVars, filterVars, textVars>>

InitElement ==
  /\ elements = <<>>
  /\ ResolverFresh
  /\ PoolIdle
  /\ RunIdle("off")
  /\ StepIdle

NextElement ==
  \/ \E e \in Executions : ExecuteElement(e)
  \/ \E e \in Executions : ToolResolves(e)
  \/ \E e \in Executions : ToolRejects(e)
  \/ \E e \in Executions : CleanupEnds(e)
  \/ \E e \in Executions : StepCompleted(e)
  \/ \E e \in Executions : StepFailed(e)

SpecElement == InitElement /\ [][NextElement]_vars

\* ------------------------------------------------------ runWithPty actions
\* runWithPty(args) up to the await of the exit: an empty shellCommand
\* throws, and so does a spawn that throws (spawned = FALSE); otherwise the
\* process is spawned and the data handler subscribed.
RunWithPty ==
  /\ ptyState = "none"
  /\ \E command \in ShellCommands, list \in PromptLists, fatal \in BOOLEAN,
        spawned \in BOOLEAN :
       /\ shellCommand' = command
       /\ prompts' = list
       /\ exitOnNonZeroCode' = fatal
       /\ IF Len(command) = 0
          THEN /\ ptyState' = "threw"
               /\ ptyOutcome' = ThrewBeforeRun("Shell command cannot be empty")
          ELSE IF ~spawned
          THEN /\ ptyState' = "threw"
               /\ ptyOutcome' = ThrewBeforeRun("PTY spawn failed")
          ELSE /\ ptyState' = "running"
               /\ UNCHANGED ptyOutcome
  /\ UNCHANGED <<buffer, visibleBuffer, nextPromptIndex, writes, writable, dataEvents,
                 received>>
  /\ UNCHANGED <<resolverVars, poolVars, runVars, contextVars, execVars, filterVars, textVars>>

\* pty.onData((data) => ...): one chunk of output arrives.  nextPromptIndex
\* counts from 0, the prompt list from 1.
OnData ==
  /\ ptyState = "running"
  /\ dataEvents < MaxData
  /\ \E data \in DataChunks :
       LET visible == visibleBuffer \o stripVT(data)
           matched == /\ nextPromptIndex < Len(prompts)
                      /\ includes(visible, prompts[nextPromptIndex + 1].match)
       IN /\ buffer' = buffer \o data
          /\ received' = Append(received, data)
          /\ visibleBuffer' = visible
          /\ IF matched
             THEN /\ writes' = IF writable
                               THEN Append(writes,
                                      [prompt |-> nextPromptIndex + 1,
                                       text |-> toSend(prompts[nextPromptIndex + 1].response),
                                       atData |-> dataEvents + 1])
                               ELSE writes
                  /\ nextPromptIndex' = NextPromptIndex(nextPromptIndex)
             ELSE UNCHANGED <<writes, nextPromptIndex>>
  /\ dataEvents' = dataEvents + 1
  /\ UNCHANGED <<ptyState, shellCommand, prompts, exitOnNonZeroCode, writable, ptyOutcome>>
  /\ UNCHANGED <<resolverVars, poolVars, runVars, contextVars, execVars, filterVars, textVars>>

\* The process closes its side of the terminal: pty.write throws from now
\* on, which the handler ignores.
PtyCloses ==
  /\ ptyState = "running"
  /\ writable
  /\ writable' = FALSE
  /\ UNCHANGED <<ptyState, shellCommand, prompts, exitOnNonZeroCode, buffer, visibleBuffer,
                 nextPromptIndex, writes, dataEvents, received, ptyOutcome>>
  /\ UNCHANGED <<resolverVars, poolVars, runVars, contextVars, execVars, filterVars, textVars>>

\* Mutant: a run that exits with a prompt still pending is rejected.
OnExit_PendingPromptFails ==
  /\ ptyState = "running"
  /\ \E code \in ExitCodes :
       ptyOutcome' = IF nextPromptIndex < Len(prompts) THEN CommandExited(code)
                     ELSE onExit(code, exitOnNonZeroCode, buffer)
  /\ ptyState' = "exited"
  /\ UNCHANGED <<shellCommand, prompts, exitOnNonZeroCode, buffer, visibleBuffer,
                 nextPromptIndex, writes, writable, dataEvents, received>>
  /\ UNCHANGED <<resolverVars, poolVars, runVars, contextVars, execVars, filterVars, textVars>>

\* pty.onExit((event) => ...): the subscriptions are disposed and the
\* promise settled.
OnExit ==
  /\ ptyState = "running"
  /\ \E code \in ExitCodes : ptyOutcome' = onExit(code, exitOnNonZeroCode, buffer)
  /\ ptyState' = "exited"
  /\ UNCHANGED <<shellCommand, prompts, exitOnNonZeroCode, buffer, visibleBuffer,
                 nextPromptIndex, writes, writable, dataEvents, received>>
  /\ UNCHANGED <<resolverVars, poolVars, runVars, contextVars, execVars, filterVars, textVars>>

InitPty ==
  /\ elements = <<>>
  /\ ResolverFresh
  /\ PoolIdle
  /\ RunIdle("off")
  /\ StepIdle

NextPty ==
  \/ RunWithPty
  \/ OnData
  \/ PtyCloses
  \/ OnExit

SpecPty == InitPty /\ [][NextPty]_vars

\* ------------------------------------------------ properties: the resolver
\* The declared dependency relation of an accepted list, and its cycles.
DependsOn(elems) ==
  {pr \in Names \X Names :
     \E i \in 1..Len(elems) :
       elems[i].name = pr[1] /\ pr[2] \in Range(Dependencies(elems[i]))}

RECURSIVE PathsWithin(_, _, _)
PathsWithin(R, S, k) ==
  IF k = 0 THEN S
  ELSE PathsWithin(R,
                   S \cup {x \in Names \X Names :
                             \E b \in Names : <<x[1], b>> \in S /\ <<b, x[2]>> \in R},
                   k - 1)

TransitiveDependsOn(elems) == PathsWithin(DependsOn(elems), DependsOn(elems), Len(elems))

HasCycle(elems) == \E n \in Names : <<n, n>> \in TransitiveDependsOn(elems)

Accepted(elems) ==
  /\ \A i, j \in 1..Len(elems) : i # j => elems[i].name # elems[j].name
  /\ \A i \in 1..Len(elems) : \A d \in Range(Dependencies(elems[i])) :
       d # elems[i].name /\ \E j \in 1..Len(elems) : elems[j].name = d

\* order holds every element exactly once, each after all its dependencies.
IsTopologicalOrder(elems, order) ==
  /\ Len(order) = Len(elems)
  /\ \A i \in 1..Len(elems) : Cardinality({j \in 1..Len(order) : order[j] = elems[i]}) = 1
  /\ \A i \in 1..Len(order) : \A d \in Range(Dependencies(order[i])) :
       \E j \in 1..(i - 1) : order[j].name = d

\* path closes on itself and every step of it is a declared dependency.
IsRealCycle(elems, path) ==
  /\ Len(path) >= 2
  /\ path[1] = path[Len(path)]
  /\ \A i \in 1..(Len(path) - 1) : <<path[i], path[i + 1]>> \in DependsOn(elems)

\* C1: for every accepted list whose dependency relation has no cycle,
\* resolveExecutionOrder returns a list that holds every element exactly once
\* and every dependency of an element strictly before the element.
C1_AcyclicOrderIsTopological ==
  (constructed = "yes" /\ orderOutcome.called /\ ~HasCycle(elements)) =>
    (~orderOutcome.threw /\ IsTopologicalOrder(elements, orderOutcome.order))

\* C2: for every accepted list whose dependency relation has a cycle,
\* resolveExecutionOrder throws a DependencyError whose path is a real cycle.
C2_CyclicInputThrowsRealCycle ==
  (constructed = "yes" /\ orderOutcome.called /\ HasCycle(elements)) =>
    /\ orderOutcome.threw
    /\ orderOutcome.error.name = "DependencyError"
    /\ IsRealCycle(elements, orderOutcome.error.cycle)

\* C3: construction succeeds exactly when names are pairwise distinct, no
\* element lists itself and every listed dependency is a loaded element;
\* otherwise it throws a DependencyError naming the offending element or the
\* missing dependency.
ErrorNamesOffender(elems, err) ==
  /\ err.name = "DependencyError"
  /\ err.kind \in {"duplicate", "self", "missing"}
  /\ err.kind = "duplicate" =>
       Cardinality({i \in 1..Len(elems) : elems[i].name = err.element}) >= 2
  /\ err.kind = "self" =>
       \E i \in 1..Len(elems) :
         elems[i].name = err.element /\ err.element \in Range(Dependencies(elems[i]))
  /\ err.kind = "missing" =>
       /\ \A i \in 1..Len(elems) : elems[i].name # err.dependency
       /\ \E i \in 1..Len(elems) :
            elems[i].name = err.element /\ err.dependency \in Range(Dependencies(elems[i]))

C3_ConstructionAcceptsExactlyValidLists ==
  /\ constructed = "yes" => (Accepted(elements) /\ constructorError = NoError)
  /\ constructed = "threw" =>
       (~Accepted(elements) /\ ErrorNamesOffender(elements, constructorError))

C3_Witness ==
  /\ constructed = "threw"
  /\ constructorError.kind = "missing"
  /\ Len(elements) >= 2

\* C4: getIndependentElements returns exactly the elements whose dependency
\* list is empty or absent, in list order, whoever depends on them and
\* whether or not resolveExecutionOrder was called before.
C4_IndependentAreExactlyDependencyFree ==
  independentOutcome.called =>
    LET r == independentOutcome.order
    IN /\ \A i \in 1..Len(elements) :
            (elements[i] \in Range(r)) <=>
            (~elements[i].hasDependencies \/ elements[i].dependencies = <<>>)
       /\ \A i, j \in 1..Len(r) :
            i < j => \E a, b \in 1..Len(elements) :
                       a < b /\ elements[a] = r[i] /\ elements[b] = r[j]

C4_Witness ==
  /\ independentOutcome.called
  /\ independentOutcome.atCalls >= 1
  /\ Len(independentOutcome.order) = 2
  /\ \E i, j \in 1..Len(elements) :
       /\ ~elements[i].hasDependencies
       /\ elements[j].hasDependencies /\ elements[j].dependencies = <<>>
  /\ \E pr \in DependsOn(elements) : ElementNamed(elements, pr[2]) \in Range(independentOutcome.order)

\* ----------------------------------------------------- properties: the run
NothingExecuted ==
  /\ \A n \in Names : execCount[n] = 0 /\ stepsDone[n] = 0 /\ elemState[n] = "idle"
  /\ poolState = "idle"

\* C5: when dependency resolution fails with a DependencyError (duplicate
\* name, self-dependency, missing dependency, cycle) the run aborts and no step
\* of any element has been executed.
C5_DependencyErrorAbortsBeforeAnyStep ==
  /\ (constructed = "threw" \/ orderOutcome.threw) => (pc = "aborted" /\ NothingExecuted)
  /\ pc = "aborted" =>
       (constructorError.name = "DependencyError" \/ orderOutcome.error.name = "DependencyError")

C5_Witness ==
  /\ pc = "aborted"
  /\ orderOutcome.threw
  /\ orderOutcome.error.kind = "cycle"
  /\ Len(orderOutcome.error.cycle) = 3
  /\ \E i \in 1..Len(elements) : Len(elements[i].pipeline) > 0

\* C6: the first step of an element starts only after every element named in
\* its dependencies has completed all of its steps without failure.
HasRunAllSteps(n) ==
  elemState[n] = "completed" /\ stepsDone[n] = Len(PipelineOf(n))

C6_StartsAfterDependenciesCompleted ==
  \A n \in Names :
    execCount[n] > 0 =>
      \A d \in Range(Dependencies(ElementNamed(elements, n))) : HasRunAllSteps(d)

C6_Witness ==
  \E n \in Names :
    /\ elemState[n] = "running"
    /\ Len(PipelineOf(n)) > 0
    /\ \E d \in Range(Dependencies(ElementNamed(elements, n))) :
         Len(PipelineOf(d)) = 2 /\ HasRunAllSteps(d)

\* Every loaded element was executed exactly once: the independent ones
\* through the pool, the others in the sequential loop.
EachLoadedElementExecutedOnce ==
  /\ \A n \in Names : execCount[n] = 1 <=> n \in Range(ElementNames(elements))
  /\ \A i \in 1..Len(elements) :
       /\ HasRunAllSteps(elements[i].name)
       /\ IsPoolTask(elements[i].name) <=> Len(Dependencies(elements[i])) = 0

\* No element is executed twice, and a run that reached its last statement
\* executed every loaded element once.
CompletedRunExecutedEachOnce ==
  /\ \A n \in Names : execCount[n] <= 1
  /\ pc = "completed" => EachLoadedElementExecutedOnce

\* A step of element n failed: executeElement threw from its loop.
StepFailedIn(n) ==
  elemState[n] = "failed" /\ ~SetupThrows(ElementNamed(elements, n))

\* The run has ended and no step of any element failed; the list loaded is
\* one whose dependencies the resolver's constructor accepts and that has no
\* cycle.
RunEndedWithoutStepFailure ==
  /\ pc \in {"completed", "aborted", "failed"}
  /\ constructed = "yes"
  /\ ~HasCycle(elements)
  /\ \A n \in Names : ~StepFailedIn(n)

\* C7: no element is executed more than once, and in a run in which no step
\* fails every loaded element is executed exactly once: the independent ones
\* through the pool, the others in the sequential loop.
C7_EveryElementExecutedOnce ==
  /\ \A n \in Names : execCount[n] <= 1
  /\ RunEndedWithoutStepFailure => EachLoadedElementExecutedOnce

\* ---------------------------------------------------- properties: the pool
InFlight == {i \in 1..Len(taskState) : taskState[i] = "running"}

\* C8: when every task succeeds, runPromisePool returns an array as long as
\* the task list whose position i holds the result of task i, in whatever
\* order the tasks completed.
C8_ResultsAtOriginalIndex ==
  poolState = "resolved" =>
    /\ Len(returned) = Len(tasks)
    /\ \A i \in 1..Len(tasks) : taskState[i] = "fulfilled" /\ returned[i] = taskValue[i]

C8_Witness ==
  /\ poolState = "resolved"
  /\ Len(tasks) = 3
  /\ settleOrder = <<2, 1, 3>>
  /\ returned = <<"x", "y", "x">>

\* C9: for N tasks and limit C the pool starts min(C, N) workers, and at every
\* moment at most C tasks are started and not yet settled.
C9_AtMostConcurrencyInFlight ==
  poolState \in {"running", "resolved", "rejected"} =>
    /\ Len(workers) <= concurrency
    /\ Len(workers) <= Len(tasks)
    /\ Len(workers) = concurrency \/ Len(workers) = Len(tasks)
    /\ Cardinality(InFlight) <= concurrency

C9_Witness ==
  /\ poolState = "running"
  /\ concurrency = 2
  /\ Len(tasks) = 4
  /\ Len(workers) = 2
  /\ InFlight = {2, 3}

\* C10: no task index is claimed by two workers, so every task is started at
\* most once; when no task fails every task is started exactly once and the
\* returned promise eventually resolves, after all of them have settled.
ClaimedOnce ==
  /\ \A i \in 1..Len(startCount) : startCount[i] <= 1
  /\ \A v, w \in 1..Len(workers) :
       (v # w /\ workers[v].state = "awaiting" /\ workers[w].state = "awaiting")
         => workers[v].currentIndex # workers[w].currentIndex

ResolvedAfterAllSettled ==
  poolState = "resolved" =>
    \A i \in 1..Len(tasks) : startCount[i] = 1 /\ taskState[i] = "fulfilled"

SomeTaskFailed == \E i \in 1..Len(taskState) : taskState[i] = "rejected"

C10_EachTaskOnceAndPoolResolves ==
  /\ []ClaimedOnce
  /\ []ResolvedAfterAllSettled
  /\ (poolState = "running") ~> (poolState = "resolved" \/ SomeTaskFailed)

C10_Witness ==
  /\ poolState = "resolved"
  /\ Len(tasks) = 4
  /\ concurrency = 2
  /\ taskIndex = 6

\* ------------------------------------------------ properties: the context
\* C11: on one context, a set(path, value) call whose path an earlier
\* successful set wrote fails with ContextError, whatever the two values are.
C11_SecondSetOfPathFails ==
  (lastCall.op = "set" /\ lastCall.alreadyWritten)
    => lastCall.outcome = Threw("ContextError")

\* C11, with clear(): a set(path, value) call whose path an earlier
\* successful set wrote, with no clear() call between the two, fails with
\* ContextError, whatever the two values are.
C11_SecondSetWithoutClearFails ==
  [][(/\ lastCall'.op = "set"
      /\ setCalls' = setCalls + 1
      /\ lastCall'.key \in DOMAIN written
      /\ written[lastCall'.key] # ClearedValue)
       => lastCall'.outcome = Threw("ContextError")]_vars

C11_Witness ==
  /\ lastCall.op = "set"
  /\ lastCall.alreadyWritten
  /\ written[lastCall.key] \notin {ClearedValue, lastCall.value}
  /\ lastCall.outcome = Threw("ContextError")

\* C12: after set(p, v) succeeded, get(p) returns v after every later
\* sequence of set calls, also sets of a prefix or an extension of p. A
\* path that clear() removed is not asked about.
C12_GetReturnsWrittenValue ==
  (/\ lastCall.op = "get"
   /\ lastCall.key \in DOMAIN written
   /\ written[lastCall.key] # ClearedValue)
    => lastCall.outcome = Returned(written[lastCall.key])

\* C13: the keys of the readonly data and of the runtime data are disjoint
\* after any sequence of set calls: a set of a readonly key fails with
\* ContextError and no accepted set makes a key of the runtime data (as
\* processTemplate reads them) equal to a readonly key.
C13_ReadonlyAndRuntimeKeysDisjoint ==
  /\ (lastCall.op = "set" /\ PathOf(lastCall.key) \in context.readonlyKeys)
       => lastCall.outcome = Threw("ContextError")
  /\ Conflicts(context.readonlyData, context.data) = {}

\* C14: after set(p, v) succeeded, processTemplate of the string that is
\* exactly the interpolation of p returns v; the interpolation of a key of
\* the readonly data returns that key's value.
C14_InterpolationReturnsValue ==
  /\ \A key \in DOMAIN written :
       (/\ lastCall.op = "processTemplate"
        /\ lastCall.key = Interpolation(PathOf(key))
        /\ written[key] # ClearedValue)
         => lastCall.outcome = Returned(written[key])
  /\ \A p \in DOMAIN context.readonlyData :
       (lastCall.op = "processTemplate" /\ lastCall.key = Interpolation(p))
         => lastCall.outcome = Returned(context.readonlyData[p])

\* The paths of the interpolations in a string.
InterpolatedPaths(template) ==
  {ExpressionAt(template, i, TemplateOpen).path :
     i \in {j \in 1..Len(template) :
              /\ IsAt(template, j, TemplateOpen)
              /\ ExpressionAt(template, j, TemplateOpen).found}}

Unresolvable(path) ==
  resolvePath(context.readonlyData, context.data, PathOf(path))
    \in {UndefinedValue, ObjectValue}

\* C15: processTemplate throws TemplateError, and returns nothing, when an
\* interpolation in the string names a path that resolves to undefined or to
\* an object in the merged context.
C15_UnresolvableInterpolationThrows ==
  (lastCall.op = "processTemplate"
     /\ \E path \in InterpolatedPaths(lastCall.key) : Unresolvable(path))
    => lastCall.outcome = Threw("TemplateError")

C15_Witness ==
  /\ lastCall.op = "processTemplate"
  /\ lastCall.key = Interpolation(<<"name">>) \o <<"/">> \o Interpolation(<<"ctx">>)
  /\ Conflicts(context.readonlyData, context.data) = {}
  /\ ~Unresolvable(Join(<<"name">>))
  /\ resolvePath(context.readonlyData, context.data, <<"ctx">>) = ObjectValue
  /\ lastCall.outcome = Threw("TemplateError")

\* C16: processTemplate of a string that is exactly an assignment expression
\* returns the identical string and throws nothing, whatever the readonly
\* and the runtime data hold.
C16_AssignmentExpressionUnchanged ==
  (lastCall.op = "processTemplate" /\ \E p \in KeyPaths : lastCall.key = Assignment(p))
    => lastCall.outcome = Returned(lastCall.key)

C16_Witness ==
  /\ lastCall.op = "processTemplate"
  /\ lastCall.key = Assignment(<<"name", "out">>)
  /\ Conflicts(context.readonlyData, context.data) # {}
  /\ lastCall.outcome = Returned(lastCall.key)

\* --------------------------------------- properties: executeElement's steps
\* The log of an execution keeps the order expand i, execute i, completed i,
\* expand i+1, ...
OrderedLog(x) ==
  \A k \in 1..Len(x.log) :
    LET i == x.log[k][2]
    IN /\ x.log[k][1] = "expand" =>
            \/ k = 1 /\ i = 1
            \/ k > 1 /\ x.log[k - 1] = <<"completed", i - 1>>
       /\ x.log[k][1] = "execute" => (k > 1 /\ x.log[k - 1] = <<"expand", i>>)
       /\ x.log[k][1] = "completed" => (k > 1 /\ x.log[k - 1] = <<"execute", i>>)

\* The runtime data that the expansion of step j read holds every value the
\* steps before j stored.
SeesEarlierSets(x) ==
  \A j \in 1..Len(x.seen) : \A s \in 1..Len(x.sets) :
    (x.sets[s].accepted /\ x.sets[s].step < j)
      => dlv(x.seen[j], PathOf(x.sets[s].key)) = x.sets[s].value

\* C17: within one element the steps are dispatched in array order, step i+1
\* is expanded and dispatched only after the execute of step i completed, and
\* the expansion of step i+1 sees every variable that steps 1..i set.
C17_StepsInOrderSeeEarlierVariables ==
  \A e \in Executions : OrderedLog(executions[e]) /\ SeesEarlierSets(executions[e])

FailedAtStep(x) == x.phase = "failed" /\ x.log # <<>> /\ x.log[Len(x.log)][1] = "failed"

\* C18: when the expansion or the execute of step i fails, no step after i
\* is expanded or executed, and executeElement fails with an error that
\* carries the step index and the tool name.
C18_StepFailureAbortsElement ==
  /\ [](\A e \in Executions :
          LET x == executions[e]
              i == x.log[Len(x.log)][2]
          IN FailedAtStep(x) =>
               /\ x.error = [thrown |-> TRUE, step |-> i, tool |-> x.pipeline[i].tool]
               /\ \A k \in 1..Len(x.log) : x.log[k][2] <= i
               /\ Len(x.seen) = i)
  /\ [][\A e \in Executions :
          executions[e].phase = "failed" => executions'[e] = executions[e]]_vars

C18_Witness ==
  LET x == executions[1]
  IN /\ FailedAtStep(x)
     /\ Len(x.pipeline) = 3
     /\ x.log = << <<"expand", 1>>, <<"execute", 1>>, <<"completed", 1>>,
                   <<"expand", 2>>, <<"failed", 2>> >>
     /\ x.error = [thrown |-> TRUE, step |-> 2, tool |-> "execute-bash-command"]
     /\ executions[2].phase = "awaiting"

\* The context of an execution after the set calls of its own first n steps.
RECURSIVE Replay(_, _, _)
Replay(c, setCallsMade, n) ==
  IF setCallsMade = <<>> \/ Head(setCallsMade).step > n THEN c
  ELSE Replay(RuntimeContextSet(c, Head(setCallsMade).key, Head(setCallsMade).value),
              Tail(setCallsMade), n)

OwnContext(x, n) ==
  Replay(RuntimeContextSet(PipelineContext(x.element), StorageDirectoryKey, storageDirectory),
         x.sets, n)

\* C19: every execution of an element works on a new context of its own: at
\* its first step the runtime data holds only ctx.storageDirectory, and what
\* it reads, and whether its sets are accepted, depends on its own sets only,
\* also when two executions run concurrently.
C19_ContextOwnedByOneExecution ==
  \A e \in Executions :
    LET x == executions[e]
    IN /\ x.seen # <<>> =>
            x.seen[1] = (<<"ctx", "storageDirectory">> :> storageDirectory)
       /\ \A j \in 1..Len(x.seen) : x.seen[j] = OwnContext(x, j - 1).data
       /\ \A s \in 1..Len(x.sets) :
            x.sets[s].accepted
              = ~SetRejected(Replay(OwnContext(x, 0), SubSeq(x.sets, 1, s - 1), MaxPipeline + 1),
                             x.sets[s].key)

C19_Witness ==
  /\ \A e \in Executions :
       /\ executions[e].phase = "awaiting"
       /\ executions[e].step = 2
       /\ executions[e].sets =
            << [key |-> Join(<<"ctx", "out">>), value |-> ToolOutput, step |-> 1,
                accepted |-> TRUE] >>
  /\ contexts[1] = contexts[2]

\* --------------------------------------------------- properties: runWithPty
\* C20: the responses are written in prompt-list order: the response of
\* prompt k is written only after the responses of all prompts before k, and
\* no response is written twice, also when its match text appears again.
C20_ResponsesInPromptOrder ==
  \A k \in 1..Len(writes) :
    /\ writes[k].prompt = k
    /\ writes[k].text = toSend(prompts[k].response)

C20_Witness ==
  /\ Len(prompts) = 2
  /\ prompts[1].match = <<"a">>
  /\ prompts[2].match = <<"b">>
  /\ visibleBuffer = <<"a", "b", "a">>
  /\ Len(writes) = 2
  /\ writes[1].atData = 1
  /\ writes[2].atData = 2

\* Every response written is the response of its prompt, with a line feed
\* appended unless it already ends with a line terminator, and the match
\* text of the prompt is in the handler's own visible buffer.
WrittenOnVisibleBufferMatch ==
  \A k \in 1..Len(writes) :
    LET prompt == prompts[writes[k].prompt]
        response == prompt.response
    IN /\ includes(visibleBuffer, prompt.match)
       /\ writes[k].text =
            IF response[Len(response)] \in {"LF", "CR"} THEN response
            ELSE response \o <<"LF">>

\* C21: a response is written only once its prompt's match text is in the
\* visible output (the raw output received so far without its control
\* sequences), and the text written is the response, with a line feed
\* appended unless the response already ends with a line terminator.
C21_ResponseWrittenOnMatch ==
  [][Len(writes') > Len(writes) =>
       LET sent == writes'[Len(writes')]
           prompt == prompts[sent.prompt]
           response == prompt.response
       IN /\ includes(stripVT(buffer'), prompt.match)
          /\ sent.text =
               IF response[Len(response)] \in {"LF", "CR"} THEN response
               ELSE response \o <<"LF">>]_vars

\* C22: the promise of a run whose process was spawned settles at the exit
\* of the process only; it resolves with the whole raw output when the code
\* is 0 or the fatal flag is unset, and rejects with an error naming the
\* code otherwise.
C22_ExitSettlesPromise ==
  IF ptyState = "threw" THEN ptyOutcome.settled = "rejected" /\ received = <<>>
  ELSE IF ptyState # "exited" THEN ptyOutcome = PtyPending
  ELSE IF ptyOutcome.code = 0 \/ ~exitOnNonZeroCode
  THEN /\ ptyOutcome.settled = "resolved"
       /\ ptyOutcome.output = Concat(received)
  ELSE /\ ptyOutcome = CommandExited(ptyOutcome.code)
       /\ ptyOutcome.code \in ExitCodes \ {0}

C22_Witness ==
  /\ ptyState = "exited"
  /\ ~exitOnNonZeroCode
  /\ ptyOutcome.code = 2
  /\ ptyOutcome.settled = "resolved"
  /\ Len(received) = 2
  /\ ptyOutcome.output = <<"a", "ESC", "[", "0", "m", "b", "b">>

\* C27: the visible buffer is the raw buffer with the control sequences
\* stripped, so that a first prompt whose match text is in the stripped
\* output has been found by the time the chunk is handled.
C27_VisibleBufferIsStrippedRaw ==
  /\ visibleBuffer = stripVT(buffer)
  /\ (dataEvents > 0 /\ nextPromptIndex = 0 /\ prompts # <<>>)
       => ~includes(stripVT(buffer), prompts[1].match)

\* ------------------------------------------ properties: failures in a run
\* The run has ended with the failure of an element and nothing is in flight.
RunFailedAndAtRest ==
  /\ pc = "failed"
  /\ \A n \in Names : elemState[n] # "running"

\* C23: the failure of an element aborts the remaining steps of that element
\* only: every loaded element that does not depend on a failed element,
\* directly or through other elements, is executed all the same.
C23_ElementErrorIsLocal ==
  /\ \A n \in Names :
       elemState[n] = "failed" =>
         IF StepFailedIn(n) THEN stepsDone[n] < Len(PipelineOf(n)) ELSE stepsDone[n] = 0
  /\ RunFailedAndAtRest =>
       \A i \in 1..Len(elements) :
         (\A f \in Names :
            elemState[f] = "failed" =>
              (f # elements[i].name
               /\ <<elements[i].name, f>> \notin TransitiveDependsOn(elements)))
         => execCount[elements[i].name] > 0

\* ------------------------------------- properties: the resolver, repeated
\* The outcome of the first resolveExecutionOrder call on a resolver built
\* from elems.
FirstOutcome(elems) ==
  ResolveOutcome(elems, BuildInDegree(elems), BuildAdjacency(elems), 1)

\* C24: every call of resolveExecutionOrder on one resolver gives the outcome
\* of the first call, and leaves the graph of the resolver as the constructor
\* built it.
C24_EveryCallGivesFirstOutcome ==
  (constructed = "yes" /\ orderOutcome.called) =>
    /\ [orderOutcome EXCEPT !.atCalls = 1] = FirstOutcome(elements)
    /\ inDegree = BuildInDegree(elements)
    /\ adjacencyList = BuildAdjacency(elements)

\* The first-in-first-out order of Kahn's algorithm on the declared
\* dependencies: from position k of the order on, the element at k is
\* processed and the elements all of whose dependencies are processed by then
\* are appended, in element list order.
RECURSIVE FifoFrom(_, _, _)
FifoFrom(elems, order, k) ==
  IF k > Len(order) THEN order
  ELSE LET processed == {order[j] : j \in 1..k}
           ready == SelectSeq(ElementNames(elems),
                              LAMBDA n : /\ n \notin Range(order)
                                         /\ Range(Dependencies(ElementNamed(elems, n)))
                                              \subseteq processed)
       IN FifoFrom(elems, order \o ready, k + 1)

KahnFifoOrder(elems) ==
  FifoFrom(elems,
           SelectSeq(ElementNames(elems),
                     LAMBDA n : Dependencies(ElementNamed(elems, n)) = <<>>),
           1)

\* C29: for an accepted list without a cycle resolveExecutionOrder returns
\* the first-in-first-out order of Kahn's algorithm: the elements without
\* dependencies in list order, then each element when the last of its
\* dependencies is processed, ties in list order.
C29_OrderIsKahnFifo ==
  (constructed = "yes" /\ orderOutcome.called /\ ~HasCycle(elements)) =>
    /\ ~orderOutcome.threw
    /\ [i \in 1..Len(orderOutcome.order) |-> orderOutcome.order[i].name]
         = KahnFifoOrder(elements)

\* ------------------------------------- properties: templates and contexts
\* C25: no accepted set makes a top-level key of the runtime data that is
\* also a key of the readonly data, so processTemplate never throws for the
\* collision of the two: a string without interpolations is returned as it is
\* whatever set calls were made.
C25_SetGuardsPreventCollision ==
  /\ \A key \in DOMAIN written : <<PathOf(key)[1]>> \notin DOMAIN context.readonlyData
  /\ (lastCall.op = "processTemplate" /\ InterpolatedPaths(lastCall.key) = {})
       => lastCall.outcome = Returned(lastCall.key)

\* The string in which every interpolation of template from position i on
\* is replaced by its value, in one pass from left to right.
RECURSIVE SinglePass(_, _)
SinglePass(template, i) ==
  IF i > Len(template) THEN <<>>
  ELSE LET m == ExpressionAt(template, i, TemplateOpen)
       IN IF m.found
          THEN String(resolvePath(context.readonlyData, context.data, PathOf(m.path)))
                 \o SinglePass(template, m.last + 1)
          ELSE <<template[i]>> \o SinglePass(template, i + 1)

\* The positions of the interpolations in a string.
InterpolationsIn(template) ==
  {i \in 1..Len(template) :
     IsAt(template, i, TemplateOpen) /\ ExpressionAt(template, i, TemplateOpen).found}

\* C26: for a string with several interpolations that all resolve to
\* primitives, processTemplate returns the string with each interpolation
\* replaced by its value in one pass from left to right: the other text is
\* unchanged and the text of a value is not replaced again.
C26_SeveralMarkersReplacedInOnePass ==
  (lastCall.op = "processTemplate"
     /\ Cardinality(InterpolationsIn(lastCall.key)) >= 2
     /\ \A path \in InterpolatedPaths(lastCall.key) : ~Unresolvable(path))
    => lastCall.outcome = Returned(SinglePass(lastCall.key, 1))

\* ------------------------------------- properties: the pool, a task fails
\* The pool's promise rejects only with the failure of a task, the one its
\* first rejected worker awaited.
RejectsWithTaskFailure ==
  /\ poolState = "rejected" =>
       /\ rejectedWith \in 1..Len(tasks)
       /\ taskState[rejectedWith] = "rejected"
       /\ \E w \in 1..Len(workers) :
            workers[w].state = "rejected" /\ workers[w].currentIndex + 1 = rejectedWith
  /\ poolState = "resolved" => ~SomeTaskFailed

\* With concurrency 1 no task after a failed one is started.
NoneStartedAfterFailure ==
  concurrency = 1 =>
    \A i \in 1..Len(taskState) :
      taskState[i] = "rejected" => \A j \in (i + 1)..Len(taskState) : startCount[j] = 0

\* The worker whose task failed never claims another task.
FailedWorkerStops ==
  \A w \in 1..Len(workers) :
    (workers[w].state = "rejected"
       \/ (workers[w].state = "awaiting" /\ taskState[workers[w].currentIndex + 1] = "rejected"))
      => /\ workers'[w].state \in {workers[w].state, "rejected"}
         /\ workers'[w].currentIndex = workers[w].currentIndex

\* A worker whose task succeeded goes on to claim the counter's value and
\* to start that task if there is one, whatever happened to other tasks.
OtherWorkersGoOn ==
  \A w \in 1..Len(workers) :
    (workers[w].state = "awaiting" /\ workers'[w] # workers[w]
       /\ taskState[workers[w].currentIndex + 1] = "fulfilled")
      => /\ workers'[w].currentIndex = taskIndex
         /\ taskIndex' = taskIndex + 1
         /\ taskIndex < Len(tasks) =>
              (workers'[w].state = "awaiting" /\ taskState'[taskIndex + 1] = "running"
               /\ startCount'[taskIndex + 1] = 1)

\* C28: when a task fails the pool's promise rejects with that failure; the
\* worker of the failed task claims nothing more, the tasks in flight settle,
\* and the other workers go on claiming and starting the unclaimed tasks;
\* with concurrency 1 nothing after the failed task is started.
C28_FailureStopsOnlyItsWorker ==
  /\ [](RejectsWithTaskFailure /\ NoneStartedAfterFailure)
  /\ [][FailedWorkerStops /\ OtherWorkersGoOn]_vars
  /\ SomeTaskFailed ~> (poolState = "rejected")
  /\ \A i \in 1..MaxTasks :
       (i <= Len(taskState) /\ taskState[i] = "running")
         ~> (i <= Len(taskState) /\ taskState[i] \in {"fulfilled", "rejected"})

C28_Witness ==
  /\ poolState = "rejected"
  /\ concurrency = 2
  /\ Len(tasks) = 4
  /\ rejectedWith = 1
  /\ settleOrder = <<1, 2, 3>>
  /\ taskState = <<"rejected", "fulfilled", "fulfilled", "running">>

\* --------------------------------------- properties: concurrency of a run
\* The loaded elements that are executing, without and with dependencies.
ExecutingIndependent ==
  {i \in 1..Len(elements) :
     Len(Dependencies(elements[i])) = 0 /\ elemState[elements[i].name] = "running"}

ExecutingDependent ==
  {i \in 1..Len(elements) :
     Len(Dependencies(elements[i])) > 0 /\ elemState[elements[i].name] = "running"}

\* C30: at most 4 independent elements execute at the same time, an element
\* with dependencies is started only after the pool call for the independent
\* elements has returned, and no two elements with dependencies execute at
\* the same time.
C30_FourIndependentOneDependentAtATime ==
  /\ Cardinality(ExecutingIndependent) <= 4
  /\ Cardinality(ExecutingDependent) <= 1
  /\ \A i \in 1..Len(elements) :
       (Len(Dependencies(elements[i])) > 0 /\ execCount[elements[i].name] > 0)
         => (poolState = "resolved" /\ Len(returned) = Len(independentElements))

C30_Witness ==
  /\ Len(independentElements) = 5
  /\ Len(workers) = 4
  /\ Cardinality(ExecutingIndependent) = 4
  /\ elemState["E"] = "idle"
  /\ poolState = "running"

\* Some part of key.split('.') fails validateCamelCase.
InvalidKey(key) == \E i \in 1..Len(split(key)) : ~validateCamelCase(split(key)[i])

SetOfInvalidKeyThrows ==
  (lastCall.op = "set" /\ InvalidKey(lastCall.key))
    => lastCall.outcome = Threw("ContextError")

InterpolationOfInvalidPathThrows ==
  (/\ lastCall.op = "processTemplate"
   /\ ~isAssignmentExpression(lastCall.key)
   /\ \E path \in InterpolatedPaths(lastCall.key) : InvalidKey(path))
    => lastCall.outcome = Threw("TemplateError")

ReadOfInvalidKeyThrows ==
  (lastCall.op \in {"get", "has", "resolve"} /\ InvalidKey(lastCall.key))
    => lastCall.outcome.threw # "none"

\* C31: an operation on the context whose path has a segment that does not
\* match [a-z][a-zA-Z0-9]* fails: set with ContextError, an interpolation of
\* the path with TemplateError, and a read through get, has or resolve fails
\* as well.
C31_InvalidSegmentFails ==
  /\ SetOfInvalidKeyThrows
  /\ InterpolationOfInvalidPathThrows
  /\ ReadOfInvalidKeyThrows

ReadOps == {"get", "has", "resolve"}

\* A step that calls get, has or resolve leaves the Variables as they are.
ReadsLeaveVariables ==
  (lastCall' # lastCall /\ lastCall'.op \in ReadOps)
    => (context' = context /\ written' = written)

\* A read of a key that no set wrote returns: undefined from get and
\* resolve, false from has.
UnwrittenReadsAsAbsent ==
  (lastCall.op \in ReadOps /\ lastCall.key \notin DOMAIN written)
    => lastCall.outcome =
         Returned(IF lastCall.op = "has" THEN FalseValue ELSE UndefinedValue)

HasIffGetDefined ==
  contextState = "made" =>
    \A key \in ReadKeys :
      (RuntimeContextHas(context, key) = TrueValue)
        <=> (RuntimeContextGet(context, key) # UndefinedValue)

\* C32: get, has and resolve never change the Variables and never raise an
\* error for a path that was not written: get and resolve return undefined
\* and has returns false; has(p) is true exactly when get(p) is not
\* undefined.
C32_ReadsAreSilentAndAbsentIsUndefined ==
  /\ [][ReadsLeaveVariables]_vars
  /\ [](UnwrittenReadsAsAbsent /\ HasIffGetDefined)

\* A step in which a set call threw.
RejectedSetStep == setCalls' = setCalls + 1 /\ lastCall'.outcome.threw # "none"

\* The context reads the same before and after the step: get and has give
\* the same for every key, and processTemplate, which reads the Facts and the
\* Variables only, has the same two objects to read.
SameReads ==
  /\ \A key \in ReadKeys :
       /\ RuntimeContextGet(context', key) = RuntimeContextGet(context, key)
       /\ RuntimeContextHas(context', key) = RuntimeContextHas(context, key)
  /\ context'.readonlyData = context.readonlyData
  /\ context'.data = context.data

\* C33: a set call that is rejected (invalid segment, collision with a Facts
\* path, or path already written) leaves the context unchanged: the stored
\* Variables, the set of assigned paths and the result of every later get,
\* has and processTemplate are as if the call had not been made.
C33_RejectedSetChangesNothing ==
  [][RejectedSetStep =>
       /\ context'.data = context.data
       /\ context'.assignedKeys = context.assignedKeys
       /\ context'.readonlyKeys = context.readonlyKeys
       /\ SameReads]_vars

\* A set call was rejected on a context that holds Variables: for a key
\* already written, or for a key of the Facts, or for an invalid segment.
C33_Witness ==
  /\ lastCall.op = "set"
  /\ lastCall.outcome = Threw("ContextError")
  /\ context.assignedKeys # {}
  /\ \/ lastCall.alreadyWritten
     \/ PathOf(lastCall.key) \in context.readonlyKeys
     \/ InvalidKey(lastCall.key)

\* What one step may do to the responses and to the prompt index: at most
\* one response more, written for the first pending prompt while a chunk
\* arrives, and the index stays or grows by one.
OneResponsePerChunk ==
  /\ writes' = writes \/ (Len(writes') = Len(writes) + 1 /\ SubSeq(writes', 1, Len(writes)) = writes)
  /\ writes' # writes =>
       /\ dataEvents' = dataEvents + 1
       /\ writes'[Len(writes')].prompt = nextPromptIndex + 1
       /\ writes'[Len(writes')].atData = dataEvents'
       /\ nextPromptIndex' = nextPromptIndex + 1
  /\ nextPromptIndex' \in {nextPromptIndex, nextPromptIndex + 1}
  /\ nextPromptIndex' # nextPromptIndex => dataEvents' = dataEvents + 1
  /\ nextPromptIndex' <= Len(prompts')

\* C34: each chunk of output causes at most one response to be written; the
\* prompt index grows by at most one per chunk, never decreases and never
\* exceeds the number of prompts; when one chunk makes the match texts of
\* several pending prompts present, only the first pending prompt is
\* answered on that chunk and the next one waits for another chunk.
C34_OnePromptPerChunk ==
  /\ [][OneResponsePerChunk]_vars
  /\ [](\A i, j \in 1..Len(writes) : i < j => writes[i].atData < writes[j].atData)
  /\ [](nextPromptIndex <= dataEvents /\ nextPromptIndex <= Len(prompts))

\* One chunk brought the match texts of both prompts: the first prompt was
\* answered on it, the second is still pending.
C34_Witness ==
  /\ Len(prompts) = 2
  /\ dataEvents = 1
  /\ includes(visibleBuffer, prompts[1].match)
  /\ includes(visibleBuffer, prompts[2].match)
  /\ prompts[1].match # prompts[2].match
  /\ nextPromptIndex = 1
  /\ Len(writes) = 1
  /\ writes[1].prompt = 1

\* A chunk arrives while prompt k + 1 is pending, prompt k was answered and
\* the text searched for is in the output seen before the chunk.
LaterPromptPending(seen) ==
  /\ dataEvents' = dataEvents + 1
  /\ writable
  /\ nextPromptIndex >= 1
  /\ nextPromptIndex < Len(prompts)
  /\ includes(seen, prompts[nextPromptIndex + 1].match)

\* The step writes the response of the pending prompt.
PendingPromptAnswered ==
  /\ Len(writes') = Len(writes) + 1
  /\ writes'[Len(writes')].prompt = nextPromptIndex + 1
  /\ writes'[Len(writes')].text = toSend(prompts[nextPromptIndex + 1].response)

\* The same with the program's own visible buffer as the output seen.
AnsweredFromVisibleBuffer ==
  [][LaterPromptPending(visibleBuffer) => PendingPromptAnswered]_vars

\* C35: the match text of prompt k + 1 is searched in all visible output
\* received since the process started (the raw output without its control
\* sequences), including the output from before prompt k was answered: when
\* the text occurred in earlier output, the response of prompt k + 1 is
\* written on the first chunk that arrives after prompt k was answered,
\* whatever that chunk holds.
C35_EarlierOutputAnswersNextPrompt ==
  [][LaterPromptPending(stripVT(buffer)) => PendingPromptAnswered]_vars

\* The run of a spawned process failed exactly when the code is not 0 and
\* the fatal flag is set.
OutcomeByCodeAndFlag ==
  ptyState = "exited" =>
    /\ ptyOutcome.settled \in {"resolved", "rejected"}
    /\ (ptyOutcome.settled = "rejected") <=> (ptyOutcome.code # 0 /\ exitOnNonZeroCode)

\* C36: the outcome of a pseudo-terminal run is decided by the exit code and
\* the fatal flag alone: prompts never matched when the process exits do not
\* make the run fail, and no response is written after the exit event.
C36_OutcomeByExitAlone ==
  /\ []OutcomeByCodeAndFlag
  /\ [][ptyState = "exited" =>
          (writes' = writes /\ nextPromptIndex' = nextPromptIndex
           /\ ptyOutcome' = ptyOutcome)]_vars

\* The process exited with code 0 while a prompt was still pending, after
\* an earlier prompt was answered: the run resolved.
C36_Witness ==
  /\ ptyState = "exited"
  /\ Len(writes) = 1
  /\ nextPromptIndex < Len(prompts)
  /\ exitOnNonZeroCode
  /\ ptyOutcome.code = 0
  /\ ptyOutcome.settled = "resolved"

\* The names that the elements named in S depend on, in the list elems.
DependenciesOf(elems, S) ==
  UNION {Range(Dependencies(elems[i])) : i \in {j \in 1..Len(elems) : elems[j].name \in S}}

\* The names reachable from those in S through dependencies.
RECURSIVE ReachableFrom(_, _)
ReachableFrom(elems, S) ==
  IF DependenciesOf(elems, S) \subseteq S THEN S
  ELSE ReachableFrom(elems, S \cup DependenciesOf(elems, S))

\* A filter was given and the list for the resolver is made.
FilterApplied == filterPc = "filtered" /\ elementFilters # <<>>

\* The list handed to the resolver holds the elements of the imported list
\* whose names are requested or reachable from a requested name, and no
\* others; every dependency of an element of it names an element of it.
HandedListIsClosure ==
  FilterApplied =>
    /\ elements = SelectSeq(imported,
                     LAMBDA e : e.name \in ReachableFrom(imported, Range(elementFilters)))
    /\ \A i \in 1..Len(elements) :
         Range(Dependencies(elements[i])) \subseteq Range(ElementNames(elements))

\* No name occurs twice in the imported list.
DistinctNames(elems) ==
  \A i, j \in 1..Len(elems) : elems[i].name = elems[j].name => i = j

ClosureForDistinctNames ==
  (FilterApplied /\ DistinctNames(imported)) =>
    /\ elements = SelectSeq(imported,
                     LAMBDA e : e.name \in ReachableFrom(imported, Range(elementFilters)))
    /\ \A i \in 1..Len(elements) :
         Range(Dependencies(elements[i])) \subseteq Range(ElementNames(elements))

\* The walk ends: with the list made or with the process ended.
FilterWalkEnds == (filterPc = "walk") ~> (filterPc \in {"filtered", "exited"})

\* C37 as stated: with an element filter, the elements handed to the
\* resolver are exactly the requested elements and all elements reachable
\* from them through dependencies: the set is closed under dependencies,
\* holds no element that is not reachable from a requested one, and its
\* computation ends also when the dependencies hold a cycle.
C37_FilterGivesDependencyClosure ==
  /\ []HandedListIsClosure
  /\ FilterWalkEnds

\* C37, amended: the same for an imported list in which no element name
\* occurs twice; the computation ends for every list.
C37_ClosureForDistinctNames ==
  /\ []ClosureForDistinctNames
  /\ FilterWalkEnds

\* A filter was applied to a list of distinct names whose dependencies hold
\* a cycle: an element that was not requested is handed on as a dependency
\* and an unreachable element is left out.
C37_Witness ==
  /\ FilterApplied
  /\ DistinctNames(imported)
  /\ Len(elements) < Len(imported)
  /\ Cardinality(required) > Len(elementFilters)
  /\ \E i, j \in 1..Len(elements) :
       /\ i # j
       /\ elements[i].name \in Range(Dependencies(elements[j]))
       /\ elements[j].name \in Range(Dependencies(elements[i]))

\* The input without the characters at the positions i to j.
Without(s, i, j) == SubSeq(s, 1, i - 1) \o SubSeq(s, j + 1, Len(s))

\* The result is the lines of the input, each normalized on its own, with
\* the line breaks of the input between them.
NormalizedLineByLine ==
  LET lines == SplitOn(textInput, "LF", << <<>> >>)
  IN textOutput = JoinWith([k \in 1..Len(lines) |-> normalizeOverstrikes(lines[k])], "LF")

\* A backspace after a character of its line deletes that character; a
\* backspace at the start of a line deletes nothing.
BackspaceDeletesInItsLine ==
  \A i \in 1..Len(textInput) :
    textInput[i] = "BS" =>
      IF i = 1 \/ textInput[i - 1] = "LF"
      THEN textOutput = normalizeOverstrikes(Without(textInput, i, i))
      ELSE textInput[i - 1] # "BS" =>
             textOutput = normalizeOverstrikes(Without(textInput, i - 1, i))

PlainText(s) == Range(s) \cap {"BS", "CR", "LF"} = {}

\* In a line before "\r" after: the characters of after, then those of
\* before at the columns that after does not reach.
CarriageReturnOverwrites ==
  \A i \in 1..Len(textInput) :
    LET before == SubSeq(textInput, 1, i - 1)
        after == SubSeq(textInput, i + 1, Len(textInput))
    IN (textInput[i] = "CR" /\ PlainText(before) /\ PlainText(after)) =>
         textOutput = after \o SubSeq(before, Len(after) + 1, Len(before))

\* C38: normalizeOverstrikes works line by line: a backspace deletes the
\* previous character of its own line and has no effect on the text of
\* earlier lines or on line breaks, and after a carriage return later
\* characters overwrite the earlier characters of the same line at the same
\* column while earlier characters at columns not overwritten remain.
C38_OverstrikesLineByLine ==
  textCall = "normalizeOverstrikes" =>
    /\ NormalizedLineByLine
    /\ BackspaceDeletesInItsLine
    /\ CarriageReturnOverwrites

\* No match of VT_REGEX starts anywhere in s.
NoControlSequenceIn(s) == \A i \in 1..Len(s) : ControlSequenceEnd(s, i) = 0

\* C39: the output of stripVT holds no recognized control sequence (CSI,
\* OSC/DCS/PM/APC string ended by BEL or ST, bare C1 byte), so stripping is
\* idempotent: stripVT(stripVT(s)) = stripVT(s) for every string s.
C39_StripVTIsIdempotent ==
  textCall = "stripVT" =>
    /\ NoControlSequenceIn(textOutput)
    /\ stripVT(textOutput) = textOutput

\* out is the copy of in: the same kind, the same keys in the same order at
\* every object, the same length at every array, every string the
\* processTemplate of the string at its place and every other primitive the
\* same.
RECURSIVE CopyOf(_, _, _)
CopyOf(in, out, c) ==
  IF in.kind = "string"
  THEN out = StringOf(processTemplate(in.string, c.readonlyData, c.data).value)
  ELSE IF in.kind = "primitive" THEN out = in
  ELSE /\ out.kind = in.kind
       /\ Len(out.entries) = Len(in.entries)
       /\ \A k \in 1..Len(in.entries) :
            /\ out.entries[k].key = in.entries[k].key
            /\ CopyOf(in.entries[k].value, out.entries[k].value, c)

\* Some object of the value has an entry with the key "" or "__proto__".
RECURSIVE HasEmptyKey(_)
HasEmptyKey(v) ==
  \E k \in 1..Len(v.entries) :
    \/ (v.kind = "object" /\ v.entries[k].key \in {"", "__proto__"})
    \/ HasEmptyKey(v.entries[k].value)

CopyWithoutEmptyKeys ==
  (/\ lastCall.op = "processObjectTemplate"
   /\ lastCall.outcome.threw = "none"
   /\ ~HasEmptyKey(lastCall.object))
    => CopyOf(lastCall.object, lastCall.copy, context)

\* C40: processObjectTemplate returns a copy with the structure of its input
\* (the same keys at every object, the same length and order of every
\* array) in which every string is replaced by its processTemplate result
\* and every non-string primitive is unchanged.
C40_ObjectTemplateKeepsStructure ==
  (lastCall.op = "processObjectTemplate" /\ lastCall.outcome.threw = "none")
    => CopyOf(lastCall.object, lastCall.copy, context)

====
